---------------------------- MODULE Spec2Model ----------------------------
(***************************************************************************)
(* Model of the DASCDiscord resource calculators and run tracker.          *)
(*                                                                         *)
(* Four programs are modelled, each a separate process:                    *)
(*   "bot"  src/bot.py                  the Discord bot                    *)
(*   "web"  src/web/app.py              the Flask application              *)
(*   "cmd"  src/cmd/spice_calc_cmd.py   the menu-driven CLI                *)
(*   "v2"   src/cmd/spice_calculatorv2.py  the spice-only CLI              *)
(*                                                                         *)
(* Python int is modelled by a TLA+ integer.  Python float is modelled by  *)
(* an exact rational [n |-> numerator, d |-> denominator > 0] in lowest    *)
(* terms: the arithmetic is that of the reals, the rounding error of IEEE  *)
(* doubles is not modelled.  Every operation below follows the order of    *)
(* the operations of the source line it models.                            *)
(***************************************************************************)
EXTENDS Integers, Sequences, FiniteSets, TLC

VARIABLES
    program,    \* which of the four programs this process is
    RUNS,       \* the in-memory run store of the process (bot, web)
    FILE,       \* the content of the runs file of the process
    req,        \* the command, request or menu choice the process is given
    out         \* the response to it

vars == <<program, RUNS, FILE, req, out>>

---------------------------------------------------------------------------
(* Bounds of the model.                                                    *)

\* the number of players ranges over -1..MaxPlayers
MaxPlayers == 4
\* the number of processors or refineries ranges over -1..MaxUnits
MaxUnits == 2
\* spice sand ranges over multiples of 25 from -25 to 25 * MaxSandSteps
MaxSandSteps == 8
\* stravidium mass ranges over -1..MaxMass (and the masses of ScenarioMass)
MaxMass == 5
\* titanium ore ranges over -1..MaxTi (and the ore of ScenarioTi)
MaxTi == 6
\* the rosters of the stored runs have 1..MaxRoster players
MaxRoster == 3

PlayerCounts == -1 .. MaxPlayers
UnitCounts == -1 .. MaxUnits

\* 10000 is one batch, 25000 the sand of the spec's end-to-end scenario 1
ScenarioSand == {10000, 25000}
SandValues == {25 * k : k \in -1 .. MaxSandSteps} \cup ScenarioSand

\* 100 is the mass of scenario 3; 120 gives the 40 fibers of scenario 4
ScenarioMass == {100, 120}
MassValues == (-1 .. MaxMass) \cup ScenarioMass

\* 100 is the titanium of scenario 4
ScenarioTi == {100}
TiValues == (-1 .. MaxTi) \cup ScenarioTi

---------------------------------------------------------------------------
(* Python numbers.                                                         *)

Abs(x) == IF x < 0 THEN -x ELSE x

RECURSIVE GCD(_, _)
GCD(a, b) == IF b = 0 THEN a ELSE GCD(b, a % b)

\* the float n / d, d # 0, in lowest terms with a positive denominator
Rat(n, d) ==
    LET s == IF d < 0 THEN -1 ELSE 1
        g == GCD(Abs(n), Abs(d))
    IN  [n |-> (s * n) \div g, d |-> (s * d) \div g]

\* float(i) of an int i
float(i) == [n |-> i, d |-> 1]

RAdd(a, b) == Rat(a.n * b.d + b.n * a.d, a.d * b.d)
RSub(a, b) == Rat(a.n * b.d - b.n * a.d, a.d * b.d)
RMul(a, b) == Rat(a.n * b.n, a.d * b.d)
\* a / b for b # 0 (b = 0 raises ZeroDivisionError: the callers test it)
RDiv(a, b) == Rat(a.n * b.d, a.d * b.n)
RLt(a, b) == a.n * b.d < b.n * a.d
RLe(a, b) == a.n * b.d <= b.n * a.d
RMax(a, b) == IF RLt(a, b) THEN b ELSE a
RZero == float(0)

\* math.floor(x), and int(x) for x >= 0
RFloor_ceil(a) == -((-a.n) \div a.d)
RFloor(a) == a.n \div a.d
\* int(x): truncation toward zero
int(a) == IF a.n >= 0 THEN a.n \div a.d ELSE -((-a.n) \div a.d)
\* x // y on floats, y # 0: the floor of the quotient, as a float
RFloorDiv(a, b) == float(RFloor(RDiv(a, b)))
\* x % y on floats, y > 0
RMod(a, b) == RSub(a, RMul(RFloorDiv(a, b), b))

\* a // b on ints, b # 0: Python floors toward minus infinity
PyFloorDiv_ceil(a, b) == IF b > 0 THEN -((-a) \div b) ELSE -(a \div (-b))
PyFloorDiv(a, b) == IF b > 0 THEN a \div b ELSE (-a) \div (-b)

\* round(x): Python 3 rounds half to even
round(a) ==
    LET f == RFloor(a)
        twice == 2 * (a.n - f * a.d)
    IN  IF twice < a.d THEN f
        ELSE IF twice > a.d THEN f + 1
        ELSE IF f % 2 = 0 THEN f ELSE f + 1

Min_max(a, b) == IF a >= b THEN a ELSE b
Min(a, b) == IF a <= b THEN a ELSE b
Max(a, b) == IF a >= b THEN a ELSE b

\* what a function call gives: a value, or the exception it raised
Raise(e) == [ok |-> FALSE, raised |-> e]

---------------------------------------------------------------------------
(* Responses.  A handler answers with a result ("ok"), answers with an     *)
(* error message ("error"), or lets an exception escape ("unhandled": no   *)
(* answer is sent).                                                        *)

NoResponse == [op |-> "none", status |-> "none"]
Ok(op, args, res) == [op |-> op, status |-> "ok", args |-> args, res |-> res]
Err(op, args, msg) ==
    [op |-> op, status |-> "error", args |-> args, message |-> msg]
Unhandled(op, args, exc) ==
    [op |-> op, status |-> "unhandled", args |-> args, raised |-> exc]

\* str(e) of the ZeroDivisionError of an int // 0
ZeroDivisionMessage == "integer division or modulo by zero"

---------------------------------------------------------------------------
(* src/bot.py: constants and the calculation functions.                    *)

\* run kinds that let any word through
bot_RUN_TYPES_any_word == {"spice", "plastanium", "stravidium", "bogus"}

bot_RUN_TYPES == {"spice", "plastanium", "stravidium"}
bot_AMOUNT_FIELDS == {"spice", "plastanium", "stravidium", "titanium"}

bot_SAND_PER_BATCH == 10000
bot_MELANGE_PER_BATCH == 200
bot_WATER_PER_BATCH == 75000
bot_SECONDS_PER_BATCH_minutes == 2700 \div 60
bot_SECONDS_PER_BATCH == 2700
bot_STRAV_MASS_PER_FIBER == 3
bot_WATER_PER_FIBER == 100
bot_SEC_PER_FIBER == 10
bot_TI_PER_PLASTANIUM_LARGE == 4
bot_FIBER_PER_PLASTANIUM == 1
bot_WATER_PER_PLASTANIUM == 1250
bot_SEC_PER_PLASTANIUM_LARGE == 20

\* hms(seconds): "{h}h {m}m {s}s" if h else "{m}m {s}s"
bot_hms(seconds) ==
    LET total == round(seconds)
        h == total \div 3600
        r == total % 3600
        m == r \div 60
        s == r % 60
    IN  IF h # 0
        THEN ToString(h) \o "h " \o ToString(m) \o "m " \o ToString(s) \o "s"
        ELSE ToString(m) \o "m " \o ToString(s) \o "s"

\* calculate_spice(sand: float, players: int, processors: int); the field
\* total_seconds_single is the function's local of that name
bot_calculate_spice(sand, players, processors) ==
    IF RLe(sand, RZero) \/ players < 1 \/ processors < 1
    THEN Raise("sand>0, players>=1, processors>=1 required")
    ELSE
    LET scale == RDiv(sand, float(bot_SAND_PER_BATCH))
        total_melange == RMul(float(bot_MELANGE_PER_BATCH), scale)
        total_water == RMul(float(bot_WATER_PER_BATCH), scale)
        total_seconds_single == RMul(float(bot_SECONDS_PER_BATCH), scale)
        parallel_seconds == RDiv(total_seconds_single, float(processors))
        per_player_floor == RFloor(RDiv(total_melange, float(players)))
        remainder == RSub(total_melange, float(per_player_floor * players))
    IN  [ok |-> TRUE,
         total_melange |-> total_melange,
         melange_per_player |-> per_player_floor,
         melange_remainder |-> remainder,
         total_water |-> total_water,
         water_per_processor |-> RDiv(total_water, float(processors)),
         time_seconds_parallel |-> parallel_seconds,
         total_seconds_single |-> total_seconds_single]

bot_compute_fibers_sequential(strav_mass, chem_refineries_arg) ==
    LET chem_refineries == Max(1, chem_refineries_arg)
        fibers == PyFloorDiv(strav_mass, bot_STRAV_MASS_PER_FIBER)
        water_total == fibers * bot_WATER_PER_FIBER
        time_single == fibers * bot_SEC_PER_FIBER
    IN  [fibers |-> fibers,
         water_total |-> water_total,
         water_per_refinery |->
             RDiv(float(water_total), float(chem_refineries)),
         time_per_refinery_sec |-> float(time_single),
         chem_refineries |-> chem_refineries,
         time_single |-> time_single]

\* compute_fibers(strav_mass: int, chem_refineries: int); chem_refineries
\* and time_single are the function's locals of those names
bot_compute_fibers(strav_mass, chem_refineries_arg) ==
    LET chem_refineries == Max(1, chem_refineries_arg)
        fibers == PyFloorDiv(strav_mass, bot_STRAV_MASS_PER_FIBER)
        water_total == fibers * bot_WATER_PER_FIBER
        time_single == fibers * bot_SEC_PER_FIBER
    IN  [fibers |-> fibers,
         water_total |-> water_total,
         water_per_refinery |->
             RDiv(float(water_total), float(chem_refineries)),
         time_per_refinery_sec |->
             RDiv(float(time_single), float(chem_refineries)),
         chem_refineries |-> chem_refineries,
         time_single |-> time_single]

\* compute_plastanium_large(fibers_avail: int, titanium_ore: int,
\* large_refineries: int)
bot_compute_plastanium_large(fibers_avail, titanium_ore, large_refineries_arg) ==
    LET large_refineries == Max(1, large_refineries_arg)
        max_by_fiber == PyFloorDiv(fibers_avail, bot_FIBER_PER_PLASTANIUM)
        max_by_titanium == PyFloorDiv(titanium_ore, bot_TI_PER_PLASTANIUM_LARGE)
        pieces == Min(max_by_fiber, max_by_titanium)
        water_total == pieces * bot_WATER_PER_PLASTANIUM
        time_single == pieces * bot_SEC_PER_PLASTANIUM_LARGE
    IN  [pieces |-> pieces,
         water_total |-> water_total,
         water_per_refinery |->
             RDiv(float(water_total), float(large_refineries)),
         time_per_refinery_sec |->
             RDiv(float(time_single), float(large_refineries)),
         large_refineries |-> large_refineries,
         time_single |-> time_single]

---------------------------------------------------------------------------
(* src/bot.py: the calculator slash commands.                              *)

\* /spice: every exception of calculate_spice is answered with its text
bot_spice(sand, players, processors) ==
    LET args == [sand |-> sand, players |-> players,
                 processors |-> processors]
        result == bot_calculate_spice(sand, players, processors)
    IN  IF result.ok
        THEN Ok("bot.spice", args,
                [result EXCEPT !.ok = TRUE] @@
                [time_hms |-> bot_hms(result.time_seconds_parallel)])
        ELSE Err("bot.spice", args, result.raised)

\* /plastanium_raw: no try block, fibers // players raises for players = 0
bot_plastanium_raw(strav_mass, titanium_ore, players, chem_refineries) ==
    LET args == [strav_mass |-> strav_mass, titanium_ore |-> titanium_ore,
                 players |-> players, chem_refineries |-> chem_refineries]
        stageA == bot_compute_fibers(strav_mass, chem_refineries)
        fibers == stageA.fibers
    IN  IF players = 0
        THEN Unhandled("bot.plastanium_raw", args, "ZeroDivisionError")
        ELSE Ok("bot.plastanium_raw", args,
                [stageA |-> stageA,
                 stageA_time_hms |-> bot_hms(stageA.time_per_refinery_sec),
                 fibers_per_player |-> PyFloorDiv(fibers, players),
                 titanium_per_player |-> PyFloorDiv(titanium_ore, players)])

\* /plastanium: no try block, plastanium_total // players raises for 0
bot_plastanium(strav_mass, titanium_ore, players, large_refineries, chem_refineries) ==
    LET args == [strav_mass |-> strav_mass, titanium_ore |-> titanium_ore,
                 players |-> players, large_refineries |-> large_refineries,
                 chem_refineries |-> chem_refineries]
        stageA == bot_compute_fibers(strav_mass, chem_refineries)
        fibers == stageA.fibers
        stageB == bot_compute_plastanium_large(fibers, titanium_ore,
                                               large_refineries)
        plastanium_total == stageB.pieces
        per_player == PyFloorDiv(plastanium_total, players)
        remainder == plastanium_total - per_player * players
    IN  IF players = 0
        THEN Unhandled("bot.plastanium", args, "ZeroDivisionError")
        ELSE Ok("bot.plastanium", args,
                [stageA |-> stageA,
                 stageA_time_hms |-> bot_hms(stageA.time_per_refinery_sec),
                 stageB |-> stageB,
                 stageB_time_hms |-> bot_hms(stageB.time_per_refinery_sec),
                 plastanium_total |-> plastanium_total,
                 per_player |-> per_player,
                 remainder |-> remainder])

---------------------------------------------------------------------------
(* src/web/app.py: constants and the calculation functions.                *)

web_SAND_PER_BATCH == 10000
web_MELANGE_PER_BATCH == 200
web_WATER_PER_BATCH == 75000
web_SEC_PER_BATCH == 2700
web_STRAV_MASS_PER_FIBER == 3
web_WATER_PER_FIBER == 100
web_SEC_PER_FIBER == 10
web_TI_PER_PLASTANIUM_LARGE == 4
web_FIBER_PER_PLASTANIUM == 1
web_WATER_PER_PLASTANIUM == 1250
web_SEC_PER_PLASTANIUM_LARGE == 20

web_cf_ignored(landsraad) == float(1)

\* cf = 0.75 if landsraad else 1.0
web_cf(landsraad) == IF landsraad THEN Rat(3, 4) ELSE float(1)

web_hms(seconds) ==
    LET total == round(seconds)
        h == total \div 3600
        rem == total % 3600
        m == rem \div 60
        s == rem % 60
    IN  IF h # 0
        THEN ToString(h) \o "h " \o ToString(m) \o "m " \o ToString(s) \o "s"
        ELSE ToString(m) \o "m " \o ToString(s) \o "s"

\* calc_spice(sand: float, players: int, processors: int): no validation;
\* processors is the function's local after max(1, processors)
web_calc_spice(sand, players, processors_arg) ==
    LET scale == RDiv(sand, float(web_SAND_PER_BATCH))
        total_melange == RMul(float(web_MELANGE_PER_BATCH), scale)
        total_water == RMul(float(web_WATER_PER_BATCH), scale)
        total_seconds_single == RMul(float(web_SEC_PER_BATCH), scale)
        processors == Max(1, processors_arg)
        parallel_seconds == RDiv(total_seconds_single, float(processors))
        per_player_floor ==
            RFloor(RDiv(total_melange, float(Max(1, players))))
        remainder ==
            RSub(total_melange, float(per_player_floor * Max(1, players)))
    IN  [total_melange |-> total_melange,
         melange_per_player |-> per_player_floor,
         melange_remainder |-> remainder,
         total_water |-> total_water,
         water_per_processor |-> RDiv(total_water, float(processors)),
         time_seconds_parallel |-> parallel_seconds,
         total_seconds_single |-> total_seconds_single,
         processors |-> processors]

web_compute_fibers_water_per_unit(strav_mass, chem_refineries_arg, landsraad) ==
    LET chem_refineries == Max(1, chem_refineries_arg)
        cf == web_cf(landsraad)
        mass_per_fiber == RMul(float(web_STRAV_MASS_PER_FIBER), cf)
        water_per_fiber == RMul(float(web_WATER_PER_FIBER), cf)
        fibers == IF RLt(RZero, mass_per_fiber)
                  THEN int(RFloorDiv(strav_mass, mass_per_fiber))
                  ELSE 0
        raw_consumed == RMul(float(fibers), mass_per_fiber)
        raw_leftover == RMax(RZero, RSub(strav_mass, raw_consumed))
        water_total ==
            RMul(RMul(float(fibers), water_per_fiber), float(chem_refineries))
        time_single == fibers * web_SEC_PER_FIBER
    IN  [fibers |-> fibers,
         raw_consumed |-> raw_consumed,
         raw_leftover |-> raw_leftover,
         water_total |-> water_total,
         water_per_refinery |-> RDiv(water_total, float(chem_refineries)),
         time_per_refinery_sec |->
             RDiv(float(time_single), float(chem_refineries)),
         chem_refineries |-> chem_refineries,
         mass_per_fiber |-> mass_per_fiber,
         time_single |-> time_single]

web_compute_fibers_unscaled_count(strav_mass, chem_refineries_arg, landsraad) ==
    LET chem_refineries == Max(1, chem_refineries_arg)
        cf == web_cf(landsraad)
        mass_per_fiber == RMul(float(web_STRAV_MASS_PER_FIBER), cf)
        water_per_fiber == RMul(float(web_WATER_PER_FIBER), cf)
        fibers == int(RFloorDiv(strav_mass, float(web_STRAV_MASS_PER_FIBER)))
        raw_consumed == RMul(float(fibers), mass_per_fiber)
        raw_leftover == RMax(RZero, RSub(strav_mass, raw_consumed))
        water_total == RMul(float(fibers), water_per_fiber)
        time_single == fibers * web_SEC_PER_FIBER
    IN  [fibers |-> fibers,
         raw_consumed |-> raw_consumed,
         raw_leftover |-> raw_leftover,
         water_total |-> water_total,
         water_per_refinery |-> RDiv(water_total, float(chem_refineries)),
         time_per_refinery_sec |->
             RDiv(float(time_single), float(chem_refineries)),
         chem_refineries |-> chem_refineries,
         mass_per_fiber |-> mass_per_fiber,
         time_single |-> time_single]

\* compute_fibers(strav_mass: float, chem_refineries: int, landsraad)
web_compute_fibers(strav_mass, chem_refineries_arg, landsraad) ==
    LET chem_refineries == Max(1, chem_refineries_arg)
        cf == web_cf(landsraad)
        mass_per_fiber == RMul(float(web_STRAV_MASS_PER_FIBER), cf)
        water_per_fiber == RMul(float(web_WATER_PER_FIBER), cf)
        fibers == IF RLt(RZero, mass_per_fiber)
                  THEN int(RFloorDiv(strav_mass, mass_per_fiber))
                  ELSE 0
        raw_consumed == RMul(float(fibers), mass_per_fiber)
        raw_leftover == RMax(RZero, RSub(strav_mass, raw_consumed))
        water_total == RMul(float(fibers), water_per_fiber)
        time_single == fibers * web_SEC_PER_FIBER
    IN  [fibers |-> fibers,
         raw_consumed |-> raw_consumed,
         raw_leftover |-> raw_leftover,
         water_total |-> water_total,
         water_per_refinery |-> RDiv(water_total, float(chem_refineries)),
         time_per_refinery_sec |->
             RDiv(float(time_single), float(chem_refineries)),
         chem_refineries |-> chem_refineries,
         mass_per_fiber |-> mass_per_fiber,
         time_single |-> time_single]

web_compute_plastanium_large_unscaled_use(fibers_avail, titanium_ore, large_refineries_arg, landsraad) ==
    LET large_refineries == Max(1, large_refineries_arg)
        cf == web_cf(landsraad)
        fiber_per_piece == RMul(float(web_FIBER_PER_PLASTANIUM), cf)
        ti_per_piece == RMul(float(web_TI_PER_PLASTANIUM_LARGE), cf)
        water_per_piece == RMul(float(web_WATER_PER_PLASTANIUM), cf)
        pieces_by_fiber == IF RLt(RZero, fiber_per_piece)
                           THEN int(RFloorDiv(fibers_avail, fiber_per_piece))
                           ELSE 0
        pieces_by_titanium == IF RLt(RZero, ti_per_piece)
                              THEN int(RFloorDiv(titanium_ore, ti_per_piece))
                              ELSE 0
        pieces == Min(pieces_by_fiber, pieces_by_titanium)
        fiber_used == RMul(float(pieces), fiber_per_piece)
        titanium_used == float(pieces * web_TI_PER_PLASTANIUM_LARGE)
        fiber_leftover == RMax(RZero, RSub(fibers_avail, fiber_used))
        titanium_leftover == RMax(RZero, RSub(titanium_ore, titanium_used))
        water_total == RMul(float(pieces), water_per_piece)
        time_single == pieces * web_SEC_PER_PLASTANIUM_LARGE
    IN  [pieces |-> pieces,
         water_total |-> water_total,
         water_per_refinery |-> RDiv(water_total, float(large_refineries)),
         time_per_refinery_sec |->
             RDiv(float(time_single), float(large_refineries)),
         fiber_used |-> fiber_used,
         fiber_leftover |-> fiber_leftover,
         titanium_used |-> titanium_used,
         titanium_leftover |-> titanium_leftover,
         large_refineries |-> large_refineries,
         fiber_per_piece |-> fiber_per_piece,
         ti_per_piece |-> ti_per_piece,
         time_single |-> time_single]

\* compute_plastanium_large(fibers_avail: float, titanium_ore: float,
\* large_refineries: int, landsraad)
web_compute_plastanium_large(fibers_avail, titanium_ore, large_refineries_arg, landsraad) ==
    LET large_refineries == Max(1, large_refineries_arg)
        cf == web_cf(landsraad)
        fiber_per_piece == RMul(float(web_FIBER_PER_PLASTANIUM), cf)
        ti_per_piece == RMul(float(web_TI_PER_PLASTANIUM_LARGE), cf)
        water_per_piece == RMul(float(web_WATER_PER_PLASTANIUM), cf)
        pieces_by_fiber == IF RLt(RZero, fiber_per_piece)
                           THEN int(RFloorDiv(fibers_avail, fiber_per_piece))
                           ELSE 0
        pieces_by_titanium == IF RLt(RZero, ti_per_piece)
                              THEN int(RFloorDiv(titanium_ore, ti_per_piece))
                              ELSE 0
        pieces == Min(pieces_by_fiber, pieces_by_titanium)
        fiber_used == RMul(float(pieces), fiber_per_piece)
        titanium_used == RMul(float(pieces), ti_per_piece)
        fiber_leftover == RMax(RZero, RSub(fibers_avail, fiber_used))
        titanium_leftover == RMax(RZero, RSub(titanium_ore, titanium_used))
        water_total == RMul(float(pieces), water_per_piece)
        time_single == pieces * web_SEC_PER_PLASTANIUM_LARGE
    IN  [pieces |-> pieces,
         water_total |-> water_total,
         water_per_refinery |-> RDiv(water_total, float(large_refineries)),
         time_per_refinery_sec |->
             RDiv(float(time_single), float(large_refineries)),
         fiber_used |-> fiber_used,
         fiber_leftover |-> fiber_leftover,
         titanium_used |-> titanium_used,
         titanium_leftover |-> titanium_leftover,
         large_refineries |-> large_refineries,
         fiber_per_piece |-> fiber_per_piece,
         ti_per_piece |-> ti_per_piece,
         time_single |-> time_single]

---------------------------------------------------------------------------
(* src/web/app.py: the calculator routes.  Every route body is in a try    *)
(* block whose except clause flashes "Error: {e}" and redirects.           *)

\* POST /calc/spice
web_calc_spice_route(sand, players, processors) ==
    LET args == [sand |-> sand, players |-> players,
                 processors |-> processors]
        res == web_calc_spice(sand, players, processors)
    IN  Ok("web.calc_spice", args,
           res @@ [time_hms |-> web_hms(res.time_seconds_parallel)])

\* POST /calc/plast_raw
web_calc_plast_raw_route(strav_mass, titanium, players, chem, landsraad) ==
    LET args == [strav_mass |-> strav_mass, titanium |-> titanium,
                 players |-> players, chem |-> chem, landsraad |-> landsraad]
        stageA == web_compute_fibers(strav_mass, chem, landsraad)
        fibers_total == stageA.fibers
    IN  IF players = 0
        THEN Err("web.calc_plast_raw", args, ZeroDivisionMessage)
        ELSE Ok("web.calc_plast_raw", args,
                [stageA |-> stageA,
                 fibers_total |-> fibers_total,
                 water_per_refinery |-> stageA.water_per_refinery,
                 time_hms |-> web_hms(stageA.time_per_refinery_sec),
                 fibers_per_player |-> PyFloorDiv(fibers_total, players),
                 titanium_per_player |-> PyFloorDiv(int(titanium), players),
                 raw_consumed |-> stageA.raw_consumed,
                 raw_leftover |-> stageA.raw_leftover])

\* POST /calc/plast_full
web_calc_plast_full_route(strav_mass, titanium, players, chem, large, landsraad) ==
    LET args == [strav_mass |-> strav_mass, titanium |-> titanium,
                 players |-> players, chem |-> chem, large |-> large,
                 landsraad |-> landsraad]
        stageA == web_compute_fibers(strav_mass, chem, landsraad)
        fibers_total == float(stageA.fibers)
        stageB == web_compute_plastanium_large(fibers_total, titanium, large,
                                               landsraad)
        plast_total == stageB.pieces
    IN  IF players = 0
        THEN Err("web.calc_plast_full", args, ZeroDivisionMessage)
        ELSE Ok("web.calc_plast_full", args,
                [stageA |-> stageA,
                 stageB |-> stageB,
                 stageA_time_hms |-> web_hms(stageA.time_per_refinery_sec),
                 stageB_time_hms |-> web_hms(stageB.time_per_refinery_sec),
                 plast_total |-> plast_total,
                 per_player |-> PyFloorDiv(plast_total, players),
                 remainder |->
                     plast_total - PyFloorDiv(plast_total, players) * players,
                 raw_consumed |-> stageA.raw_consumed,
                 raw_leftover |-> stageA.raw_leftover,
                 fiber_used |-> stageB.fiber_used,
                 fiber_leftover |-> stageB.fiber_leftover,
                 titanium_used |-> stageB.titanium_used,
                 titanium_leftover |-> stageB.titanium_leftover])

---------------------------------------------------------------------------
(* src/cmd/spice_calc_cmd.py: the menu-driven CLI.                         *)

cmd_SAND_PER_BATCH == 10000
cmd_MELANGE_PER_BATCH == 200
cmd_WATER_PER_BATCH == 75000
cmd_TIME_PER_BATCH_SEC == 2700
cmd_STRAV_MASS_PER_FIBER == 3
cmd_WATER_PER_FIBER == 100
cmd_SEC_PER_FIBER == 10
cmd_TI_PER_PLASTANIUM_LARGE == 4
cmd_FIBER_PER_PLASTANIUM == 1
cmd_WATER_PER_PLASTANIUM == 1250
cmd_SEC_PER_PLASTANIUM_LARGE == 20

\* the (hours, minutes, seconds) of calculate_spice_distribution:
\* int(t // 3600), int((t % 3600) // 60), int(round(t % 60))
cmd_time_tuple(t) ==
    <<int(RFloorDiv(t, float(3600))),
      int(RFloorDiv(RMod(t, float(3600)), float(60))),
      round(RMod(t, float(60)))>>

\* calculate_spice_distribution(spice_sand: float, players: int,
\* processors: int); total_time_seconds is the function's local
cmd_calculate_spice_distribution(spice_sand, players, processors) ==
    IF players <= 0
    THEN Raise("Number of players must be greater than zero.")
    ELSE IF processors <= 0
    THEN Raise("Number of processors must be greater than zero.")
    ELSE IF RLt(spice_sand, RZero)
    THEN Raise("Amount of spice sand cannot be negative.")
    ELSE
    LET batch_fraction == RDiv(spice_sand, float(cmd_SAND_PER_BATCH))
        total_melange == RMul(batch_fraction, float(cmd_MELANGE_PER_BATCH))
        water_required == RMul(batch_fraction, float(cmd_WATER_PER_BATCH))
        total_time_seconds ==
            RMul(batch_fraction, float(cmd_TIME_PER_BATCH_SEC))
        melange_per_player == RFloor(RDiv(total_melange, float(players)))
        water_per_processor == RDiv(water_required, float(processors))
        time_seconds_per_processor ==
            RDiv(total_time_seconds, float(processors))
    IN  [ok |-> TRUE,
         total_melange |-> total_melange,
         water_required |-> water_required,
         water_per_processor |-> water_per_processor,
         time |-> cmd_time_tuple(time_seconds_per_processor),
         melange_per_player |-> melange_per_player,
         total_time_seconds |-> total_time_seconds,
         time_seconds_per_processor |-> time_seconds_per_processor]

\* compute_fibers_stage(strav_mass: int, chem_refineries: int)
cmd_compute_fibers_stage(strav_mass, chem_refineries) ==
    IF strav_mass < 0
    THEN Raise("Stravidium mass cannot be negative.")
    ELSE IF chem_refineries <= 0
    THEN Raise("Number of chemical refineries must be greater than zero.")
    ELSE
    LET fibers == PyFloorDiv(strav_mass, cmd_STRAV_MASS_PER_FIBER)
        water_total == RMul(float(fibers), float(cmd_WATER_PER_FIBER))
        time_single == RMul(float(fibers), float(cmd_SEC_PER_FIBER))
    IN  [ok |-> TRUE,
         fibers |-> float(fibers),
         water_total |-> water_total,
         water_per_refinery |-> RDiv(water_total, float(chem_refineries)),
         time_per_refinery_sec |-> RDiv(time_single, float(chem_refineries)),
         time_single |-> time_single]

\* compute_plastanium_large_stage(fibers_avail: int, titanium_ore: int,
\* large_refineries: int)
cmd_compute_plastanium_large_stage(fibers_avail, titanium_ore, large_refineries) ==
    IF titanium_ore < 0
    THEN Raise("Titanium ore cannot be negative.")
    ELSE IF large_refineries <= 0
    THEN Raise("Number of large ore refineries must be greater than zero.")
    ELSE
    LET max_by_fiber == PyFloorDiv(fibers_avail, cmd_FIBER_PER_PLASTANIUM)
        max_by_titanium ==
            PyFloorDiv(titanium_ore, cmd_TI_PER_PLASTANIUM_LARGE)
        pieces == Min(max_by_fiber, max_by_titanium)
        water_total == RMul(float(pieces), float(cmd_WATER_PER_PLASTANIUM))
        time_single ==
            RMul(float(pieces), float(cmd_SEC_PER_PLASTANIUM_LARGE))
    IN  [ok |-> TRUE,
         pieces |-> float(pieces),
         water_total |-> water_total,
         water_per_refinery |-> RDiv(water_total, float(large_refineries)),
         time_per_refinery_sec |->
             RDiv(time_single, float(large_refineries)),
         time_single |-> time_single]

cmd_format_time_hms(seconds) ==
    LET total == round(seconds)
        h == total \div 3600
        rem == total % 3600
        m == rem \div 60
        s == rem % 60
    IN  IF h > 0
        THEN ToString(h) \o "h " \o ToString(m) \o "m " \o ToString(s) \o "s"
        ELSE ToString(m) \o "m " \o ToString(s) \o "s"

\* format_time(hours, minutes, seconds): " ".join(parts)
cmd_format_time(hours, minutes, seconds) ==
    (IF hours # 0 THEN ToString(hours) \o "h " ELSE "")
    \o (IF hours # 0 \/ minutes # 0 THEN ToString(minutes) \o "m " ELSE "")
    \o ToString(seconds) \o "s"

\* main(), mode "1": Spice
cmd_main_spice(spice_sand, players, processors) ==
    LET args == [sand |-> spice_sand, players |-> players,
                 processors |-> processors]
        result ==
            cmd_calculate_spice_distribution(spice_sand, players, processors)
    IN  IF result.ok
        THEN Ok("cmd.spice", args,
                result @@ [time_str |-> cmd_format_time(result.time[1],
                                          result.time[2], result.time[3])])
        ELSE Err("cmd.spice", args, result.raised)

\* main(), mode "2": Plastanium RAW split
cmd_main_plast_raw(strav_mass, titanium, players, chem_refineries) ==
    LET args == [strav_mass |-> strav_mass, titanium |-> titanium,
                 players |-> players, chem_refineries |-> chem_refineries]
        stageA == cmd_compute_fibers_stage(strav_mass, chem_refineries)
        fibers_total == int(stageA.fibers)
    IN  IF players <= 0
        THEN Err("cmd.plast_raw", args,
                 "Number of players must be greater than zero.")
        ELSE IF ~stageA.ok
        THEN Err("cmd.plast_raw", args, stageA.raised)
        ELSE Ok("cmd.plast_raw", args,
                [stageA |-> stageA,
                 fibers_total |-> fibers_total,
                 time_hms |-> cmd_format_time_hms(stageA.time_per_refinery_sec),
                 fibers_per_player |-> PyFloorDiv(fibers_total, players),
                 titanium_per_player |-> PyFloorDiv(titanium, players)])

\* main(), mode "3": Plastanium CRAFT
cmd_main_plast_craft(strav_mass, titanium, players, chem_refineries, large_refineries) ==
    LET args == [strav_mass |-> strav_mass, titanium |-> titanium,
                 players |-> players, chem_refineries |-> chem_refineries,
                 large_refineries |-> large_refineries]
        stageA == cmd_compute_fibers_stage(strav_mass, chem_refineries)
        fibers_total == int(stageA.fibers)
        stageB == cmd_compute_plastanium_large_stage(fibers_total, titanium,
                                                     large_refineries)
        plastanium_total == int(stageB.pieces)
        plastanium_per_player == PyFloorDiv(plastanium_total, players)
        remainder == plastanium_total - plastanium_per_player * players
    IN  IF players <= 0
        THEN Err("cmd.plast_craft", args,
                 "Number of players must be greater than zero.")
        ELSE IF ~stageA.ok
        THEN Err("cmd.plast_craft", args, stageA.raised)
        ELSE IF ~stageB.ok
        THEN Err("cmd.plast_craft", args, stageB.raised)
        ELSE Ok("cmd.plast_craft", args,
                [stageA |-> stageA,
                 stageB |-> stageB,
                 stageA_time_hms |->
                     cmd_format_time_hms(stageA.time_per_refinery_sec),
                 stageB_time_hms |->
                     cmd_format_time_hms(stageB.time_per_refinery_sec),
                 plastanium_total |-> plastanium_total,
                 plastanium_per_player |-> plastanium_per_player,
                 remainder |-> remainder])

---------------------------------------------------------------------------
(* src/cmd/spice_calculatorv2.py: the spice-only CLI.                      *)

v2_SAND_PER_BATCH == 10000
v2_MELANGE_PER_BATCH == 200
v2_WATER_PER_BATCH == 75000
v2_TIME_PER_BATCH_SEC == 2700

\* the (hours, minutes, seconds) of calculate_spice_distribution:
\* int(t // 3600), int((t % 3600) // 60), int(round(t % 60))
v2_time_tuple(t) ==
    <<int(RFloorDiv(t, float(3600))),
      int(RFloorDiv(RMod(t, float(3600)), float(60))),
      round(RMod(t, float(60)))>>

\* calculate_spice_distribution: melange_per_player is not floored
v2_calculate_spice_distribution(spice_sand, players, processors) ==
    IF players <= 0
    THEN Raise("Number of players must be greater than zero.")
    ELSE IF processors <= 0
    THEN Raise("Number of processors must be greater than zero.")
    ELSE IF RLt(spice_sand, RZero)
    THEN Raise("Amount of spice sand cannot be negative.")
    ELSE
    LET batch_fraction == RDiv(spice_sand, float(v2_SAND_PER_BATCH))
        total_melange == RMul(batch_fraction, float(v2_MELANGE_PER_BATCH))
        water_required == RMul(batch_fraction, float(v2_WATER_PER_BATCH))
        total_time_seconds ==
            RMul(batch_fraction, float(v2_TIME_PER_BATCH_SEC))
        melange_per_player == RDiv(total_melange, float(players))
        water_per_processor == RDiv(water_required, float(processors))
        time_seconds_per_processor ==
            RDiv(total_time_seconds, float(processors))
    IN  [ok |-> TRUE,
         total_melange |-> total_melange,
         water_required |-> water_required,
         water_per_processor |-> water_per_processor,
         time |-> v2_time_tuple(time_seconds_per_processor),
         melange_per_player |-> melange_per_player,
         total_time_seconds |-> total_time_seconds,
         time_seconds_per_processor |-> time_seconds_per_processor]

v2_format_time(hours, minutes, seconds) ==
    (IF hours # 0 THEN ToString(hours) \o "h " ELSE "")
    \o (IF hours # 0 \/ minutes # 0 THEN ToString(minutes) \o "m " ELSE "")
    \o ToString(seconds) \o "s"

\* main()
v2_main(spice_sand, players, processors) ==
    LET args == [sand |-> spice_sand, players |-> players,
                 processors |-> processors]
        result ==
            v2_calculate_spice_distribution(spice_sand, players, processors)
    IN  IF result.ok
        THEN Ok("v2.spice", args,
                result @@ [time_str |-> v2_format_time(result.time[1],
                                         result.time[2], result.time[3])])
        ELSE Err("v2.spice", args, result.raised)

---------------------------------------------------------------------------
(* The run store.  RUNS maps a run id to a run; a run of the bot is        *)
(* [kind, players, amounts, created_by, created_at], a run of the web      *)
(* application is [kind, players, amounts].  amounts maps each of the four *)
(* resource names to a float.                                              *)

\* /run_calculate of src/bot.py; ValueError is caught and answered
bot_run_calculate(run_id, processors, chem_refineries, large_refineries) ==
    LET op == "bot.run_calculate"
        args == [run_id |-> run_id, processors |-> processors,
                 chem_refineries |-> chem_refineries,
                 large_refineries |-> large_refineries]
    IN  IF run_id \notin DOMAIN RUNS
        THEN Err(op, args, "Run ID not found.")
        ELSE
        LET run == RUNS[run_id]
            players == run.players
            n_players == Len(players)
            kind == run.kind
            amounts == run.amounts
        IN  IF players = <<>>
            THEN Err(op, args, "No players in this run.")
            ELSE IF kind = "spice" THEN
                LET sand == amounts.spice
                    proc == Max(1, processors)
                    result == bot_calculate_spice(sand, n_players, proc)
                IN  IF RLe(sand, RZero)
                    THEN Err(op, args, "No spice sand recorded for this run.")
                    ELSE IF ~result.ok
                    THEN Err(op, args, result.raised)
                    ELSE Ok(op, args,
                            [kind |-> kind, n_players |-> n_players,
                             sand |-> sand, proc |-> proc,
                             result |-> result,
                             time_hms |->
                                 bot_hms(result.time_seconds_parallel)])
            ELSE IF kind = "stravidium" THEN
                LET mass == int(amounts.stravidium)
                    chem == Max(1, chem_refineries)
                    stageA == bot_compute_fibers(mass, chem)
                    fibers_total == stageA.fibers
                    per_player_fibers == PyFloorDiv(fibers_total, n_players)
                    remainder == fibers_total - per_player_fibers * n_players
                IN  IF mass <= 0
                    THEN Err(op, args,
                             "No stravidium mass recorded for this run.")
                    ELSE Ok(op, args,
                            [kind |-> kind, n_players |-> n_players,
                             mass |-> mass, chem |-> chem,
                             stageA |-> stageA,
                             fibers_total |-> fibers_total,
                             per_player_fibers |-> per_player_fibers,
                             remainder |-> remainder,
                             stageA_time_hms |->
                                 bot_hms(stageA.time_per_refinery_sec)])
            ELSE IF kind = "plastanium" THEN
                LET mass == int(amounts.stravidium)
                    titanium == int(amounts.titanium)
                    chem == Max(1, chem_refineries)
                    large == Max(1, large_refineries)
                    stageA == bot_compute_fibers(mass, chem)
                    fibers_total == stageA.fibers
                    stageB == bot_compute_plastanium_large(fibers_total,
                                                           titanium, large)
                    plastanium_total == stageB.pieces
                    per_player == PyFloorDiv(plastanium_total, n_players)
                    remainder == plastanium_total - per_player * n_players
                IN  IF mass <= 0 \/ titanium <= 0
                    THEN Err(op, args,
                             "Plastanium runs require both stravidium mass and titanium amounts.")
                    ELSE Ok(op, args,
                            [kind |-> kind, n_players |-> n_players,
                             mass |-> mass, titanium |-> titanium,
                             chem |-> chem, large |-> large,
                             stageA |-> stageA, stageB |-> stageB,
                             stageA_time_hms |->
                                 bot_hms(stageA.time_per_refinery_sec),
                             stageB_time_hms |->
                                 bot_hms(stageB.time_per_refinery_sec),
                             plastanium_total |-> plastanium_total,
                             per_player |-> per_player,
                             remainder |-> remainder])
            ELSE Err(op, args, "Unknown run type.")

\* POST /run/calculate of src/web/app.py (no try block; an unknown id is
\* flashed, "nothing recorded" is rendered as the output)
web_run_calculate(run_id, processors, chem, large, landsraad) ==
    LET op == "web.run_calculate"
        args == [run_id |-> run_id, processors |-> processors,
                 chem |-> chem, large |-> large, landsraad |-> landsraad]
    IN  IF run_id \notin DOMAIN RUNS
        THEN Err(op, args, "Run not found.")
        ELSE
        LET run == RUNS[run_id]
            players == run.players
            n_players == Max(1, Len(players))
            kind == run.kind
            amounts == run.amounts
        IN  IF kind = "spice" THEN
                LET sand == amounts.spice
                    res == web_calc_spice(sand, n_players, Max(1, processors))
                IN  IF RLe(sand, RZero)
                    THEN Err(op, args, "No spice sand recorded.")
                    ELSE Ok(op, args,
                            [kind |-> kind, n_players |-> n_players,
                             sand |-> sand,
                             result |-> res,
                             time_hms |->
                                 web_hms(res.time_seconds_parallel)])
            ELSE IF kind = "stravidium" THEN
                LET mass == amounts.stravidium
                    stageA == web_compute_fibers(mass, Max(1, chem), landsraad)
                    fibers_total == stageA.fibers
                    per_player == PyFloorDiv(fibers_total, n_players)
                    remainder == fibers_total - per_player * n_players
                IN  IF RLe(mass, RZero)
                    THEN Err(op, args, "No stravidium mass recorded.")
                    ELSE Ok(op, args,
                            [kind |-> kind, n_players |-> n_players,
                             mass |-> mass,
                             stageA |-> stageA,
                             fibers_total |-> fibers_total,
                             per_player |-> per_player,
                             remainder |-> remainder,
                             stageA_time_hms |->
                                 web_hms(stageA.time_per_refinery_sec)])
            ELSE IF kind = "plastanium" THEN
                LET mass == amounts.stravidium
                    titanium == amounts.titanium
                    chem_ref == Max(1, chem)
                    large_ref == Max(1, large)
                    stageA == web_compute_fibers(mass, chem_ref, landsraad)
                    fibers_total == float(stageA.fibers)
                    stageB == web_compute_plastanium_large(fibers_total,
                                  titanium, large_ref, landsraad)
                    plast_total == stageB.pieces
                    per_player == PyFloorDiv(plast_total, n_players)
                    remainder == plast_total - per_player * n_players
                IN  IF RLe(mass, RZero) \/ RLe(titanium, RZero)
                    THEN Err(op, args,
                             "Plastanium run requires both stravidium mass and titanium.")
                    ELSE Ok(op, args,
                            [kind |-> kind, n_players |-> n_players,
                             mass |-> mass, titanium |-> titanium,
                             stageA |-> stageA, stageB |-> stageB,
                             stageA_time_hms |->
                                 web_hms(stageA.time_per_refinery_sec),
                             stageB_time_hms |->
                                 web_hms(stageB.time_per_refinery_sec),
                             plast_total |-> plast_total,
                             per_player |-> per_player,
                             remainder |-> remainder])
            ELSE Err(op, args, "Unknown run type.")

---------------------------------------------------------------------------
(* The calculators' specification.  A process starts by loading its runs   *)
(* file (RUNS = _load_runs(), RUNS = load_runs()), which holds what        *)
(* earlier processes saved, and is given one command.  No calculator keeps *)
(* anything from one command to the next, so a behaviour is one command.   *)
(* /run_calculate reads RUNS[run_id] only: the store it is given holds the *)
(* run it names, a run of any kind, roster size and recorded amounts of    *)
(* the bounds.  The two CLIs have no store.                                *)

Programs == {"bot", "web", "cmd", "v2"}

PlayerName(i) == "P" \o ToString(i)
Roster(n) == [i \in 1 .. n |-> PlayerName(i)]

\* the titanium recorded in the stored plastanium runs
StoredTi == {-1, 0, MaxTi} \cup ScenarioTi

\* the run id of the stored run (uuid4().hex[:8]), and an id never stored
SampleId == "1a2b3c4d"
UnknownId == "ffffffff"

EmptyStore == <<>>

Amounts(spice, plastanium, stravidium, titanium) ==
    [spice |-> float(spice), plastanium |-> float(plastanium),
     stravidium |-> float(stravidium), titanium |-> float(titanium)]

\* the recorded amounts of the stored runs of each kind; an amount is a
\* float (amount: float of /run_update), so half a unit of stravidium may
\* be on record
SampleAmounts(kind) ==
    IF kind = "spice" THEN {Amounts(a, 0, 0, 0) : a \in SandValues}
    ELSE IF kind = "stravidium"
    THEN {Amounts(0, 0, a, 0) : a \in MassValues}
         \cup {[Amounts(0, 0, 0, 0) EXCEPT !.stravidium = Rat(1, 2)]}
    ELSE {Amounts(0, 0, a, t) : a \in MassValues, t \in StoredTi}
         \cup {[Amounts(0, 0, 0, t) EXCEPT !.stravidium = Rat(1, 2)] : t \in StoredTi}

SampleRuns(prog) ==
    UNION {
        {IF prog = "bot"
         THEN [kind |-> kind, players |-> Roster(n), amounts |-> am,
               created_by |-> "user1", created_at |-> ""]
         ELSE [kind |-> kind, players |-> Roster(n), amounts |-> am]
         : n \in 1 .. MaxRoster, am \in SampleAmounts(kind)}
        : kind \in bot_RUN_TYPES}

\* the stores a process given command r may have loaded
StoresFor(prog, r) ==
    IF r.op \in {"bot.run_calculate", "web.run_calculate"}
       /\ r.run_id = SampleId
    THEN {[id \in {SampleId} |-> run] : run \in SampleRuns(prog)}
    ELSE {EmptyStore}

\* the commands a process of each program can be given
Requests(prog) ==
    IF prog = "bot" THEN
        [op : {"bot.spice"}, sand : SandValues, players : PlayerCounts,
         processors : UnitCounts]
        \cup [op : {"bot.plastanium_raw"}, strav_mass : MassValues,
              titanium_ore : TiValues, players : PlayerCounts, chem : UnitCounts]
        \cup [op : {"bot.plastanium"}, strav_mass : MassValues,
              titanium_ore : TiValues, players : PlayerCounts, large : UnitCounts,
              chem : UnitCounts]
        \cup [op : {"bot.run_calculate"},
              run_id : {SampleId, UnknownId}, processors : UnitCounts,
              chem : UnitCounts, large : UnitCounts]
    ELSE IF prog = "web" THEN
        [op : {"web.calc_spice"}, sand : SandValues, players : PlayerCounts,
         processors : UnitCounts]
        \cup [op : {"web.calc_plast_raw"}, strav_mass : MassValues,
              titanium : TiValues, players : PlayerCounts, chem : UnitCounts,
              landsraad : BOOLEAN]
        \cup [op : {"web.calc_plast_full"}, strav_mass : MassValues,
              titanium : TiValues, players : PlayerCounts, chem : UnitCounts,
              large : UnitCounts, landsraad : BOOLEAN]
        \cup [op : {"web.run_calculate"},
              run_id : {SampleId, UnknownId}, processors : UnitCounts,
              chem : UnitCounts, large : UnitCounts, landsraad : BOOLEAN]
    ELSE IF prog = "cmd" THEN
        [op : {"cmd.spice"}, sand : SandValues, players : PlayerCounts,
         processors : UnitCounts]
        \cup [op : {"cmd.plast_raw"}, strav_mass : MassValues,
              titanium : TiValues, players : PlayerCounts, chem : UnitCounts]
        \cup [op : {"cmd.plast_craft"}, strav_mass : MassValues,
              titanium : TiValues, players : PlayerCounts, chem : UnitCounts,
              large : UnitCounts]
    ELSE
        [op : {"v2.spice"}, sand : SandValues, players : PlayerCounts,
         processors : UnitCounts]

\* the process has loaded its runs file and is given one command
InitCalc ==
    /\ program \in Programs
    /\ req \in Requests(program)
    /\ RUNS \in StoresFor(program, req)
    /\ FILE = RUNS
    /\ out = NoResponse

BotSpice ==
    /\ req.op = "bot.spice"
    /\ out' = bot_spice(float(req.sand), req.players, req.processors)
    /\ UNCHANGED <<program, RUNS, FILE, req>>

BotPlastaniumRaw ==
    /\ req.op = "bot.plastanium_raw"
    /\ out' = bot_plastanium_raw(req.strav_mass, req.titanium_ore,
                                 req.players, req.chem)
    /\ UNCHANGED <<program, RUNS, FILE, req>>

BotPlastanium ==
    /\ req.op = "bot.plastanium"
    /\ out' = bot_plastanium(req.strav_mass, req.titanium_ore, req.players,
                             req.large, req.chem)
    /\ UNCHANGED <<program, RUNS, FILE, req>>

BotRunCalculate ==
    /\ req.op = "bot.run_calculate"
    /\ out' = bot_run_calculate(req.run_id, req.processors, req.chem,
                                req.large)
    /\ UNCHANGED <<program, RUNS, FILE, req>>

WebCalcSpice ==
    /\ req.op = "web.calc_spice"
    /\ out' = web_calc_spice_route(float(req.sand), req.players,
                                   req.processors)
    /\ UNCHANGED <<program, RUNS, FILE, req>>

WebCalcPlastRaw ==
    /\ req.op = "web.calc_plast_raw"
    /\ out' = web_calc_plast_raw_route(float(req.strav_mass),
                  float(req.titanium), req.players, req.chem, req.landsraad)
    /\ UNCHANGED <<program, RUNS, FILE, req>>

WebCalcPlastFull ==
    /\ req.op = "web.calc_plast_full"
    /\ out' = web_calc_plast_full_route(float(req.strav_mass),
                  float(req.titanium), req.players, req.chem, req.large,
                  req.landsraad)
    /\ UNCHANGED <<program, RUNS, FILE, req>>

WebRunCalculate ==
    /\ req.op = "web.run_calculate"
    /\ out' = web_run_calculate(req.run_id, req.processors, req.chem,
                                req.large, req.landsraad)
    /\ UNCHANGED <<program, RUNS, FILE, req>>

CmdSpice ==
    /\ req.op = "cmd.spice"
    /\ out' = cmd_main_spice(float(req.sand), req.players, req.processors)
    /\ UNCHANGED <<program, RUNS, FILE, req>>

CmdPlastRaw ==
    /\ req.op = "cmd.plast_raw"
    /\ out' = cmd_main_plast_raw(req.strav_mass, req.titanium, req.players,
                                 req.chem)
    /\ UNCHANGED <<program, RUNS, FILE, req>>

CmdPlastCraft ==
    /\ req.op = "cmd.plast_craft"
    /\ out' = cmd_main_plast_craft(req.strav_mass, req.titanium, req.players,
                                   req.chem, req.large)
    /\ UNCHANGED <<program, RUNS, FILE, req>>

V2Spice ==
    /\ req.op = "v2.spice"
    /\ out' = v2_main(float(req.sand), req.players, req.processors)
    /\ UNCHANGED <<program, RUNS, FILE, req>>

NextCalc ==
    \/ BotSpice
    \/ BotPlastaniumRaw
    \/ BotPlastanium
    \/ BotRunCalculate
    \/ WebCalcSpice
    \/ WebCalcPlastRaw
    \/ WebCalcPlastFull
    \/ WebRunCalculate
    \/ CmdSpice
    \/ CmdPlastRaw
    \/ CmdPlastCraft
    \/ V2Spice

SpecCalc == InitCalc /\ [][NextCalc]_vars

---------------------------------------------------------------------------
(* The duration formatters' specification.  A process renders one          *)
(* duration: hms of the bot and of the web application, format_time_hms    *)
(* of the CLI, and format_time of the two CLIs applied to the time tuple   *)
(* of calculate_spice_distribution, as main() does.                        *)

\* durations range over the half seconds from 0 to MaxDuration
MaxDuration == 61

\* an hour less half a second, an hour, and the 3661 s of the spec
ScenarioDurations == {Rat(7199, 2), float(3600), float(3661)}
Durations == {Rat(k, 2) : k \in 0 .. 2 * MaxDuration} \cup ScenarioDurations

TimeRequests(prog) ==
    IF prog = "bot" THEN [op : {"bot.hms"}, seconds : Durations]
    ELSE IF prog = "web" THEN [op : {"web.hms"}, seconds : Durations]
    ELSE IF prog = "cmd"
    THEN [op : {"cmd.format_time_hms", "cmd.format_time"},
          seconds : Durations]
    ELSE [op : {"v2.format_time"}, seconds : Durations]

InitTime ==
    /\ program \in Programs
    /\ req \in TimeRequests(program)
    /\ RUNS = EmptyStore
    /\ FILE = RUNS
    /\ out = NoResponse

BotHms ==
    /\ req.op = "bot.hms"
    /\ out' = Ok(req.op, [seconds |-> req.seconds],
                 [text |-> bot_hms(req.seconds)])
    /\ UNCHANGED <<program, RUNS, FILE, req>>

WebHms ==
    /\ req.op = "web.hms"
    /\ out' = Ok(req.op, [seconds |-> req.seconds],
                 [text |-> web_hms(req.seconds)])
    /\ UNCHANGED <<program, RUNS, FILE, req>>

CmdFormatTimeHms ==
    /\ req.op = "cmd.format_time_hms"
    /\ out' = Ok(req.op, [seconds |-> req.seconds],
                 [text |-> cmd_format_time_hms(req.seconds)])
    /\ UNCHANGED <<program, RUNS, FILE, req>>

CmdFormatTime ==
    /\ req.op = "cmd.format_time"
    /\ LET time == cmd_time_tuple(req.seconds)
       IN  out' = Ok(req.op, [seconds |-> req.seconds],
                     [time |-> time,
                      text |-> cmd_format_time(time[1], time[2], time[3])])
    /\ UNCHANGED <<program, RUNS, FILE, req>>

V2FormatTime ==
    /\ req.op = "v2.format_time"
    /\ LET time == v2_time_tuple(req.seconds)
       IN  out' = Ok(req.op, [seconds |-> req.seconds],
                     [time |-> time,
                      text |-> v2_format_time(time[1], time[2], time[3])])
    /\ UNCHANGED <<program, RUNS, FILE, req>>

NextTime ==
    \/ BotHms
    \/ WebHms
    \/ CmdFormatTimeHms
    \/ CmdFormatTime
    \/ V2FormatTime

SpecTime == InitTime /\ [][NextTime]_vars

---------------------------------------------------------------------------
(* The run tracker's specification.  A process of the bot or of the web    *)
(* application starts with no runs file (RUNS = {}) and serves one request *)
(* after another; each handler runs to its response before the next        *)
(* request is served.  A save writes the whole store to the runs file.     *)

\* accumulators added up over the whole store stay within MaxTotal, in
\* absolute value
MaxTotal == 1

\* the ids uuid4().hex[:8] yields in a behaviour: nothing in the source
\* keeps it from yielding the id of a stored run, and with the one id of
\* the model it does so whenever the store holds a run
RunIds == {SampleId}

\* run_id of a request: the id of the model, and an id never issued
ReqIds == RunIds \cup {UnknownId}

\* interaction.user.id of the members who issue commands
Users == {"user1", "user2"}

\* kind of /run and of POST /run/create
KindInputs == bot_RUN_TYPES \cup {"bogus"}

\* players_csv, as the sequence of its comma-separated fields, each field
\* stripped: a blank csv, one name, a name twice, two names around a blank
CsvInputs == {<<"">>, <<"P1">>, <<"P1", "P1">>, <<"P1", "", "P2">>}

\* value of a players update: missing, a name
ValueInputs == {"", "P1", "P2"}

\* field of a resource update
FieldInputs == bot_AMOUNT_FIELDS \cup {"bogus"}

\* amount of a resource update: <<>> is a missing amount (None in the bot,
\* a string float() rejects in the web application), <<a>> the number a
AmountInputs == {<<>>, <<-1>>, <<1>>}

\* [p.strip() for p in csv_str.split(",") if p.strip()]
parse_players_csv(fields) == SelectSeq(fields, LAMBDA p : p # "")

\* list(dict.fromkeys(names)): the first occurrence of each name, in order
RECURSIVE dict_fromkeys(_)
dict_fromkeys(names) ==
    IF names = <<>> THEN <<>>
    ELSE LET front == dict_fromkeys(SubSeq(names, 1, Len(names) - 1))
             last == names[Len(names)]
         IN  IF \E i \in 1 .. Len(front) : front[i] = last
             THEN front
             ELSE Append(front, last)

\* name in run["players"]
OnRoster(name, players) == \E i \in 1 .. Len(players) : players[i] = name

\* a new run that starts with one titanium ore on record
ZeroAmounts_titanium_one == Amounts(0, 0, 0, 1)

\* the four accumulators of a new run
ZeroAmounts == Amounts(0, 0, 0, 0)

\* RUNS[run_id] = run
dict_set(store, run_id, run) ==
    [id \in DOMAIN store \cup {run_id} |->
        IF id = run_id THEN run ELSE store[id]]

\* del RUNS[run_id]
dict_del(store, run_id) == [id \in DOMAIN store \ {run_id} |-> store[id]]

\* run["amounts"][field] = float(run["amounts"].get(field, 0.0)) + float(amount)
add_amount(run, field, amount) ==
    [run EXCEPT !.amounts[field] = RAdd(run.amounts[field], float(amount))]

\* the accumulators of a store, added up in absolute value
RAbs(x) == IF RLt(x, RZero) THEN RSub(RZero, x) ELSE x
RECURSIVE StoreTotal(_, _)
StoreTotal(store, cells) ==
    IF cells = {} THEN RZero
    ELSE LET c == CHOOSE c \in cells : TRUE
         IN  RAdd(RAbs(store[c[1]].amounts[c[2]]),
                  StoreTotal(store, cells \ {c}))
WithinTotal(store) ==
    RLe(StoreTotal(store, (DOMAIN store) \X bot_AMOUNT_FIELDS), float(MaxTotal))

\* /run of src/bot.py
BotRunStart ==
    /\ program = "bot"
    /\ \E kind \in KindInputs, players_csv \in CsvInputs, user \in Users,
          run_id \in RunIds :
        LET op == "bot.run"
            args == [kind |-> kind, players_csv |-> players_csv,
                     user |-> user]
            players == dict_fromkeys(parse_players_csv(players_csv))
        IN  /\ req' = [op |-> op] @@ args
            /\ IF kind \notin bot_RUN_TYPES
               THEN /\ out' = Err(op, args,
                        "kind must be one of: spice, plastanium, stravidium")
                    /\ UNCHANGED <<RUNS, FILE>>
               ELSE IF players = <<>>
               THEN /\ out' = Err(op, args,
                        "Provide at least one player in players_csv.")
                    /\ UNCHANGED <<RUNS, FILE>>
               ELSE /\ RUNS' = dict_set(RUNS, run_id,
                        [kind |-> kind, players |-> players,
                         amounts |-> ZeroAmounts, created_by |-> user,
                         created_at |-> ""])
                    /\ FILE' = RUNS'
                    /\ out' = Ok(op, args, [run_id |-> run_id, kind |-> kind,
                                            players |-> players])
    /\ UNCHANGED program

\* /run_update of src/bot.py
BotRunUpdate ==
    /\ program = "bot"
    /\ \E run_id \in ReqIds, field \in FieldInputs \cup {"players"},
          value \in ValueInputs, amount \in AmountInputs :
        LET op == "bot.run_update"
            args == [run_id |-> run_id, field |-> field, value |-> value,
                     amount |-> amount]
        IN  /\ field = "players" => amount = <<>>
            /\ field # "players" => value = ""
            /\ req' = [op |-> op] @@ args
            /\ IF run_id \notin DOMAIN RUNS
               THEN /\ out' = Err(op, args, "Run ID not found.")
                    /\ UNCHANGED <<RUNS, FILE>>
               ELSE IF field = "players"
               THEN IF value = ""
                    THEN /\ out' = Err(op, args,
                             "Provide value=<PlayerName> when field=players.")
                         /\ UNCHANGED <<RUNS, FILE>>
                    ELSE IF OnRoster(value, RUNS[run_id].players)
                    THEN /\ out' = [op |-> op, status |-> "info",
                                    args |-> args,
                                    message |-> "is already on the roster."]
                         /\ UNCHANGED <<RUNS, FILE>>
                    ELSE /\ RUNS' = [RUNS EXCEPT ![run_id].players =
                                        Append(@, value)]
                         /\ FILE' = RUNS'
                         /\ out' = Ok(op, args,
                                      [roster |-> RUNS'[run_id].players])
               ELSE IF field \notin bot_AMOUNT_FIELDS
               THEN /\ out' = Err(op, args, "field must be one of: players | spice | plastanium | stravidium | titanium")
                    /\ UNCHANGED <<RUNS, FILE>>
               ELSE IF amount = <<>>
               THEN /\ out' = Err(op, args,
                        "Provide amount=<number> for resource updates.")
                    /\ UNCHANGED <<RUNS, FILE>>
               ELSE /\ RUNS' = [RUNS EXCEPT ![run_id] =
                                   add_amount(@, field, amount[1])]
                    /\ WithinTotal(RUNS')
                    /\ FILE' = RUNS'
                    /\ out' = Ok(op, args,
                                 [total |-> RUNS'[run_id].amounts[field]])
    /\ UNCHANGED program

\* /run_view of src/bot.py
BotRunView ==
    /\ program = "bot"
    /\ \E run_id \in ReqIds :
        LET op == "bot.run_view"
            args == [run_id |-> run_id]
        IN  /\ req' = [op |-> op] @@ args
            /\ out' = IF run_id \notin DOMAIN RUNS
                      THEN Err(op, args, "Run ID not found.")
                      ELSE Ok(op, args, RUNS[run_id])
    /\ UNCHANGED <<program, RUNS, FILE>>

\* a run_delete that removes the run before it checks the requester, and
\* saves only when the requester is permitted
BotRunDelete_delete_first ==
    /\ program = "bot"
    /\ \E run_id \in ReqIds, user \in Users, administrator \in BOOLEAN :
        LET op == "bot.run_delete"
            args == [run_id |-> run_id, user |-> user,
                     administrator |-> administrator]
        IN  /\ req' = [op |-> op] @@ args
            /\ IF run_id \notin DOMAIN RUNS
               THEN /\ out' = Err(op, args, "Run ID not found.")
                    /\ UNCHANGED <<RUNS, FILE>>
               ELSE /\ RUNS' = dict_del(RUNS, run_id)
                    /\ IF ~(user = RUNS[run_id].created_by \/ administrator)
                       THEN /\ out' = Err(op, args, "You must be the run creator or a server administrator to delete this run.")
                            /\ UNCHANGED FILE
                       ELSE /\ FILE' = RUNS'
                            /\ out' = Ok(op, args, [deleted |-> run_id])
    /\ UNCHANGED program

\* /run_delete of src/bot.py
BotRunDelete ==
    /\ program = "bot"
    /\ \E run_id \in ReqIds, user \in Users, administrator \in BOOLEAN :
        LET op == "bot.run_delete"
            args == [run_id |-> run_id, user |-> user,
                     administrator |-> administrator]
        IN  /\ req' = [op |-> op] @@ args
            /\ IF run_id \notin DOMAIN RUNS
               THEN /\ out' = Err(op, args, "Run ID not found.")
                    /\ UNCHANGED <<RUNS, FILE>>
               ELSE LET is_creator == user = RUNS[run_id].created_by
                        is_admin == administrator
                    IN  IF ~(is_creator \/ is_admin)
                        THEN /\ out' = Err(op, args, "You must be the run creator or a server administrator to delete this run.")
                             /\ UNCHANGED <<RUNS, FILE>>
                        ELSE /\ RUNS' = dict_del(RUNS, run_id)
                             /\ FILE' = RUNS'
                             /\ out' = Ok(op, args, [deleted |-> run_id])
    /\ UNCHANGED program

\* /run_calculate of src/bot.py, on the store as it is
BotRunCalc ==
    /\ program = "bot"
    /\ \E run_id \in ReqIds, units \in 1 .. MaxUnits :
        /\ req' = [op |-> "bot.run_calculate", run_id |-> run_id,
                   processors |-> units, chem |-> units, large |-> units]
        /\ out' = bot_run_calculate(run_id, units, units, units)
    /\ UNCHANGED <<program, RUNS, FILE>>

\* POST /run/create of src/web/app.py
WebRunCreate ==
    /\ program = "web"
    /\ \E kind \in KindInputs, players_csv \in CsvInputs, user \in Users,
          run_id \in RunIds :
        LET op == "web.run_create"
            args == [kind |-> kind, players_csv |-> players_csv,
                     user |-> user]
            players == parse_players_csv(players_csv)
        IN  /\ req' = [op |-> op] @@ args
            /\ IF kind \notin {"spice", "stravidium", "plastanium"}
               THEN /\ out' = Err(op, args,
                                  "kind must be spice|stravidium|plastanium")
                    /\ UNCHANGED <<RUNS, FILE>>
               ELSE IF players = <<>>
               THEN /\ out' = Err(op, args, "Provide at least one player.")
                    /\ UNCHANGED <<RUNS, FILE>>
               ELSE /\ RUNS' = dict_set(RUNS, run_id,
                        [kind |-> kind, players |-> players,
                         amounts |-> ZeroAmounts])
                    /\ FILE' = RUNS'
                    /\ out' = Ok(op, args, [run_id |-> run_id, kind |-> kind,
                                            players |-> players])
    /\ UNCHANGED program

\* a run_update that puts the new player at the head of the roster
WebRunUpdate_insert_first ==
    /\ program = "web"
    /\ \E run_id \in ReqIds, field \in FieldInputs \cup {"players"},
          value \in ValueInputs, amount \in AmountInputs :
        LET op == "web.run_update"
            args == [run_id |-> run_id, field |-> field, value |-> value,
                     amount |-> amount]
        IN  /\ field = "players" => amount = <<>>
            /\ field # "players" => value = ""
            /\ req' = [op |-> op] @@ args
            /\ IF run_id \notin DOMAIN RUNS
               THEN /\ out' = Err(op, args, "Run not found.")
                    /\ UNCHANGED <<RUNS, FILE>>
               ELSE IF field = "players"
               THEN IF value = ""
                    THEN /\ out' = Err(op, args,
                                       "Provide Value when field=players.")
                         /\ UNCHANGED <<RUNS, FILE>>
                    ELSE IF OnRoster(value, RUNS[run_id].players)
                    THEN /\ out' = Ok(op, args,
                                [text |-> "Player already in roster"])
                         /\ UNCHANGED <<RUNS, FILE>>
                    ELSE /\ RUNS' = [RUNS EXCEPT ![run_id].players =
                                        <<value>> \o @]
                         /\ FILE' = RUNS'
                         /\ out' = Ok(op, args,
                                      [roster |-> RUNS'[run_id].players])
               ELSE IF field \notin {"spice", "stravidium", "titanium", "plastanium"}
               THEN /\ out' = Err(op, args, "Invalid field. Use players|spice|stravidium|titanium|plastanium.")
                    /\ UNCHANGED <<RUNS, FILE>>
               ELSE IF amount = <<>>
               THEN /\ out' = Err(op, args, "Amount must be a number.")
                    /\ UNCHANGED <<RUNS, FILE>>
               ELSE /\ RUNS' = [RUNS EXCEPT ![run_id] =
                                   add_amount(@, field, amount[1])]
                    /\ WithinTotal(RUNS')
                    /\ FILE' = RUNS'
                    /\ out' = Ok(op, args,
                                 [total |-> RUNS'[run_id].amounts[field]])
    /\ UNCHANGED program

\* POST /run/update of src/web/app.py
WebRunUpdate ==
    /\ program = "web"
    /\ \E run_id \in ReqIds, field \in FieldInputs \cup {"players"},
          value \in ValueInputs, amount \in AmountInputs :
        LET op == "web.run_update"
            args == [run_id |-> run_id, field |-> field, value |-> value,
                     amount |-> amount]
        IN  /\ field = "players" => amount = <<>>
            /\ field # "players" => value = ""
            /\ req' = [op |-> op] @@ args
            /\ IF run_id \notin DOMAIN RUNS
               THEN /\ out' = Err(op, args, "Run not found.")
                    /\ UNCHANGED <<RUNS, FILE>>
               ELSE IF field = "players"
               THEN IF value = ""
                    THEN /\ out' = Err(op, args,
                                       "Provide Value when field=players.")
                         /\ UNCHANGED <<RUNS, FILE>>
                    ELSE IF OnRoster(value, RUNS[run_id].players)
                    THEN /\ out' = Ok(op, args,
                                [text |-> "Player already in roster"])
                         /\ UNCHANGED <<RUNS, FILE>>
                    ELSE /\ RUNS' = [RUNS EXCEPT ![run_id].players =
                                        Append(@, value)]
                         /\ FILE' = RUNS'
                         /\ out' = Ok(op, args,
                                      [roster |-> RUNS'[run_id].players])
               ELSE IF field \notin {"spice", "stravidium", "titanium", "plastanium"}
               THEN /\ out' = Err(op, args, "Invalid field. Use players|spice|stravidium|titanium|plastanium.")
                    /\ UNCHANGED <<RUNS, FILE>>
               ELSE IF amount = <<>>
               THEN /\ out' = Err(op, args, "Amount must be a number.")
                    /\ UNCHANGED <<RUNS, FILE>>
               ELSE /\ RUNS' = [RUNS EXCEPT ![run_id] =
                                   add_amount(@, field, amount[1])]
                    /\ WithinTotal(RUNS')
                    /\ FILE' = RUNS'
                    /\ out' = Ok(op, args,
                                 [total |-> RUNS'[run_id].amounts[field]])
    /\ UNCHANGED program

\* GET /run/view of src/web/app.py
WebRunView ==
    /\ program = "web"
    /\ \E run_id \in ReqIds :
        LET op == "web.run_view"
            args == [run_id |-> run_id]
        IN  /\ req' = [op |-> op] @@ args
            /\ out' = IF run_id \notin DOMAIN RUNS
                      THEN Err(op, args, "Run not found.")
                      ELSE Ok(op, args, RUNS[run_id])
    /\ UNCHANGED <<program, RUNS, FILE>>

\* a run_delete that removes with RUNS.pop(run_id, None) and always
\* reports the deletion
WebRunDelete_pop ==
    /\ program = "web"
    /\ \E run_id \in ReqIds, user \in Users, administrator \in BOOLEAN :
        LET op == "web.run_delete"
            args == [run_id |-> run_id, user |-> user,
                     administrator |-> administrator]
        IN  /\ req' = [op |-> op] @@ args
            /\ RUNS' = dict_del(RUNS, run_id)
            /\ FILE' = RUNS'
            /\ out' = Ok(op, args, [deleted |-> run_id])
    /\ UNCHANGED program

\* POST /run/delete of src/web/app.py; the request of any client is served
WebRunDelete ==
    /\ program = "web"
    /\ \E run_id \in ReqIds, user \in Users, administrator \in BOOLEAN :
        LET op == "web.run_delete"
            args == [run_id |-> run_id, user |-> user,
                     administrator |-> administrator]
        IN  /\ req' = [op |-> op] @@ args
            /\ IF run_id \in DOMAIN RUNS
               THEN /\ RUNS' = dict_del(RUNS, run_id)
                    /\ FILE' = RUNS'
                    /\ out' = Ok(op, args, [deleted |-> run_id])
               ELSE /\ out' = Err(op, args, "Run not found.")
                    /\ UNCHANGED <<RUNS, FILE>>
    /\ UNCHANGED program

\* a run_calculate that uses up what it shares out: it sets the
\* accumulators of the run to zero and saves
WebRunCalc_consuming ==
    /\ program = "web"
    /\ \E run_id \in ReqIds, units \in 1 .. MaxUnits, landsraad \in BOOLEAN :
        /\ req' = [op |-> "web.run_calculate", run_id |-> run_id,
                   processors |-> units, chem |-> units, large |-> units,
                   landsraad |-> landsraad]
        /\ out' = web_run_calculate(run_id, units, units, units, landsraad)
        /\ RUNS' = IF run_id \in DOMAIN RUNS /\ out'.status = "ok"
                   THEN [RUNS EXCEPT ![run_id].amounts = ZeroAmounts]
                   ELSE RUNS
        /\ FILE' = RUNS'
    /\ UNCHANGED program

\* POST /run/calculate of src/web/app.py, on the store as it is
WebRunCalc ==
    /\ program = "web"
    /\ \E run_id \in ReqIds, units \in 1 .. MaxUnits, landsraad \in BOOLEAN :
        /\ req' = [op |-> "web.run_calculate", run_id |-> run_id,
                   processors |-> units, chem |-> units, large |-> units,
                   landsraad |-> landsraad]
        /\ out' = web_run_calculate(run_id, units, units, units, landsraad)
    /\ UNCHANGED <<program, RUNS, FILE>>

\* the process has found no runs file and has served no request
InitRuns ==
    /\ program \in {"bot", "web"}
    /\ RUNS = EmptyStore
    /\ FILE = RUNS
    /\ req = [op |-> "none"]
    /\ out = NoResponse

NextRuns ==
    \/ BotRunStart
    \/ BotRunUpdate
    \/ BotRunView
    \/ BotRunDelete
    \/ BotRunCalc
    \/ WebRunCreate
    \/ WebRunUpdate
    \/ WebRunView
    \/ WebRunDelete
    \/ WebRunCalc

SpecRuns == InitRuns /\ [][NextRuns]_vars

---------------------------------------------------------------------------
(* The handlers' specification.  A process of the bot or of the web        *)
(* application holds a store and is given MaxHandlers requests at once.    *)
(* A handler of the bot is a coroutine: it runs without interruption from  *)
(* one await to the next, and other handlers run while it awaits.  The     *)
(* only await of the run handlers is the one that sends the response, the  *)
(* last statement on every path; a handler of the web application is a     *)
(* function that returns its response.  A handler is modelled by the       *)
(* statements it executes, in their order:                                 *)
(*   put   RUNS[run_id] = run, or an assignment into the run               *)
(*   del   del RUNS[run_id]                                                *)
(*   save  _save_runs(RUNS), save_runs(RUNS)                               *)
(*   send  await interaction.response.send_message(...), return ...        *)
(* Here req[h] is handler h (its request, the store as it was when the     *)
(* request arrived, its statements, the position in them, the statements   *)
(* executed) and out[h] the response it has sent.                          *)

\* the number of requests in flight
MaxHandlers == 2

\* the statements of the three mutating commands of src/bot.py for the
\* request r, on the store the handler finds
bot_statements(store, r) ==
    LET args == [x \in (DOMAIN r) \ {"op", "new_id"} |-> r[x]]
        refuse(msg) == <<[k |-> "send", response |-> Err(r.op, args, msg)]>>
        write(run_id, run, res) ==
            <<[k |-> "put", run_id |-> run_id, run |-> run],
              [k |-> "save"],
              [k |-> "send", response |-> Ok(r.op, args, res)]>>
    IN  IF r.op = "bot.run" THEN
            LET players == dict_fromkeys(parse_players_csv(r.players_csv))
            IN  IF r.kind \notin bot_RUN_TYPES
                THEN refuse("kind must be one of: spice, plastanium, stravidium")
                ELSE IF players = <<>>
                THEN refuse("Provide at least one player in players_csv.")
                ELSE write(r.new_id,
                           [kind |-> r.kind, players |-> players,
                            amounts |-> ZeroAmounts, created_by |-> r.user,
                            created_at |-> ""],
                           [run_id |-> r.new_id, kind |-> r.kind,
                            players |-> players])
        ELSE IF r.run_id \notin DOMAIN store THEN refuse("Run ID not found.")
        ELSE IF r.op = "bot.run_update" THEN
            LET run == store[r.run_id]
            IN  IF r.field = "players" THEN
                    IF r.value = ""
                    THEN refuse("Provide value=<PlayerName> when field=players.")
                    ELSE IF OnRoster(r.value, run.players)
                    THEN <<[k |-> "send",
                            response |-> [op |-> r.op, status |-> "info",
                                          args |-> args,
                                          message |-> "is already on the roster."]]>>
                    ELSE write(r.run_id,
                               [run EXCEPT !.players = Append(@, r.value)],
                               [roster |-> Append(run.players, r.value)])
                ELSE IF r.field \notin bot_AMOUNT_FIELDS
                THEN refuse("field must be one of: players | spice | plastanium | stravidium | titanium")
                ELSE IF r.amount = <<>>
                THEN refuse("Provide amount=<number> for resource updates.")
                ELSE write(r.run_id, add_amount(run, r.field, r.amount[1]),
                           [total |-> add_amount(run, r.field, r.amount[1]).amounts[r.field]])
        ELSE \* bot.run_delete
            IF ~(r.user = store[r.run_id].created_by \/ r.administrator)
            THEN refuse("You must be the run creator or a server administrator to delete this run.")
            ELSE <<[k |-> "del", run_id |-> r.run_id],
                   [k |-> "save"],
                   [k |-> "send",
                    response |-> Ok(r.op, args, [deleted |-> r.run_id])]>>

\* the statements of the three mutating routes of src/web/app.py
web_statements(store, r) ==
    LET args == [x \in (DOMAIN r) \ {"op", "new_id"} |-> r[x]]
        refuse(msg) == <<[k |-> "send", response |-> Err(r.op, args, msg)]>>
        write(run_id, run, res) ==
            <<[k |-> "put", run_id |-> run_id, run |-> run],
              [k |-> "save"],
              [k |-> "send", response |-> Ok(r.op, args, res)]>>
    IN  IF r.op = "web.run_create" THEN
            LET players == parse_players_csv(r.players_csv)
            IN  IF r.kind \notin {"spice", "stravidium", "plastanium"}
                THEN refuse("kind must be spice|stravidium|plastanium")
                ELSE IF players = <<>>
                THEN refuse("Provide at least one player.")
                ELSE write(r.new_id,
                           [kind |-> r.kind, players |-> players,
                            amounts |-> ZeroAmounts],
                           [run_id |-> r.new_id, kind |-> r.kind,
                            players |-> players])
        ELSE IF r.run_id \notin DOMAIN store THEN refuse("Run not found.")
        ELSE IF r.op = "web.run_update" THEN
            LET run == store[r.run_id]
            IN  IF r.field = "players" THEN
                    IF r.value = ""
                    THEN refuse("Provide Value when field=players.")
                    ELSE IF OnRoster(r.value, run.players)
                    THEN <<[k |-> "send",
                            response |-> Ok(r.op, args,
                                [text |-> "Player already in roster"])]>>
                    ELSE write(r.run_id,
                               [run EXCEPT !.players = Append(@, r.value)],
                               [roster |-> Append(run.players, r.value)])
                ELSE IF r.field \notin {"spice", "stravidium", "titanium", "plastanium"}
                THEN refuse("Invalid field. Use players|spice|stravidium|titanium|plastanium.")
                ELSE IF r.amount = <<>>
                THEN refuse("Amount must be a number.")
                ELSE write(r.run_id, add_amount(run, r.field, r.amount[1]),
                           [total |-> add_amount(run, r.field, r.amount[1]).amounts[r.field]])
        ELSE \* web.run_delete
            <<[k |-> "del", run_id |-> r.run_id],
              [k |-> "save"],
              [k |-> "send",
               response |-> Ok(r.op, args, [deleted |-> r.run_id])]>>

\* a handler that answers first and changes the store when it is resumed
bot_coroutine_reply_first(store, r) ==
    LET b == bot_statements(store, r)
    IN  <<b[Len(b)]>> \o SubSeq(b, 1, Len(b) - 1)

\* the handler as a coroutine: its statements, awaiting at each send
bot_coroutine(store, r) == bot_statements(store, r)

\* a save that writes nothing
save_runs_skipped(st) == st

\* _save_runs(data), save_runs(data): the file becomes the whole store
save_runs(st) == [st EXCEPT !.FILE = st.RUNS]

\* one statement s of a handler, executed in st = [RUNS, FILE, sent]
Exec(st, s) ==
    IF s.k = "put" THEN [st EXCEPT !.RUNS = dict_set(st.RUNS, s.run_id, s.run)]
    ELSE IF s.k = "del" THEN [st EXCEPT !.RUNS = dict_del(st.RUNS, s.run_id)]
    ELSE IF s.k = "save" THEN save_runs(st)
    ELSE [st EXCEPT !.sent = s.response]

\* the statements from position pc up to the next await (a send) or to the
\* end of the handler, executed without interruption; pc is advanced
RECURSIVE RunToAwait(_, _, _)
RunToAwait(st, body, pc) ==
    IF pc > Len(body) THEN [st |-> st, pc |-> pc]
    ELSE IF body[pc].k = "send"
    THEN [st |-> Exec(st, body[pc]), pc |-> pc + 1]
    ELSE RunToAwait(Exec(st, body[pc]), body, pc + 1)

\* the requests of the handlers: a Create (with the id uuid4 draws for it),
\* the addition of a player, of an amount, and a Delete
StepRequests(prog) ==
    IF prog = "bot" THEN
        [op : {"bot.run"}, kind : {"spice", "bogus"}, players_csv : {<<"P1">>},
         user : {"user1"}, new_id : RunIds]
        \cup [op : {"bot.run_update"}, run_id : RunIds, field : {"players"},
              value : {"P1", "P2"}, amount : {<<>>}]
        \cup [op : {"bot.run_update"}, run_id : RunIds, field : {"spice"},
              value : {""}, amount : {<<>>, <<1>>, <<2>>}]
        \cup [op : {"bot.run_delete"}, run_id : RunIds, user : Users,
              administrator : {FALSE}]
    ELSE
        [op : {"web.run_create"}, kind : {"spice", "bogus"},
         players_csv : {<<"P1">>}, user : {"user1"}, new_id : RunIds]
        \cup [op : {"web.run_update"}, run_id : RunIds, field : {"players"},
              value : {"P1", "P2"}, amount : {<<>>}]
        \cup [op : {"web.run_update"}, run_id : RunIds, field : {"spice"},
              value : {""}, amount : {<<>>, <<1>>, <<2>>}]
        \cup [op : {"web.run_delete"}, run_id : RunIds, user : Users,
              administrator : {FALSE}]

\* the requests have arrived, at a store with no run or with the spice run
\* user1 made, and no handler has started
InitSteps ==
    /\ program \in {"bot", "web"}
    /\ RUNS \in {EmptyStore,
                 [id \in RunIds |->
                    IF program = "bot"
                    THEN [kind |-> "spice", players |-> <<"P1">>,
                          amounts |-> ZeroAmounts, created_by |-> "user1",
                          created_at |-> ""]
                    ELSE [kind |-> "spice", players |-> <<"P1">>,
                          amounts |-> ZeroAmounts]]}
    /\ FILE = RUNS
    /\ req \in [1 .. MaxHandlers ->
                  [r : StepRequests(program), pc : {0}, body : {<<>>},
                   done : {<<>>}, arrived : {RUNS}]]
    /\ out = [h \in 1 .. MaxHandlers |-> NoResponse]

\* handler h runs from where it is to its next await; a handler that has
\* not started first finds its statements on the store as it is now
Advance(h, body) ==
    LET from == IF req[h].pc = 0 THEN 1 ELSE req[h].pc
        run == RunToAwait([RUNS |-> RUNS, FILE |-> FILE, sent |-> out[h]],
                          body, from)
    IN  /\ RUNS' = run.st.RUNS
        /\ FILE' = run.st.FILE
        /\ out' = [out EXCEPT ![h] = run.st.sent]
        /\ req' = [req EXCEPT ![h].pc = run.pc, ![h].body = body,
                              ![h].done = @ \o [i \in 1 .. run.pc - from |->
                                                  body[from + i - 1].k]]
        /\ UNCHANGED program

\* a handler of src/bot.py is started or resumed by the event loop
BotHandler ==
    /\ program = "bot"
    /\ \E h \in 1 .. MaxHandlers :
        /\ req[h].pc <= Len(req[h].body)
        /\ Advance(h, IF req[h].pc = 0 THEN bot_coroutine(RUNS, req[h].r)
                      ELSE req[h].body)

\* a route of src/web/app.py is called and returns
WebHandler ==
    /\ program = "web"
    /\ \E h \in 1 .. MaxHandlers :
        /\ req[h].pc = 0
        /\ Advance(h, web_statements(RUNS, req[h].r))

\* the store after the handlers of the requests rs of the bot have run one
\* after another, each to its end before the next starts
RECURSIVE SerialStore(_, _)
SerialStore(store, rs) ==
    IF rs = <<>> THEN store
    ELSE LET RECURSIVE all(_, _, _)
             all(st, body, pc) ==
                 IF pc > Len(body) THEN st
                 ELSE all(Exec(st, body[pc]), body, pc + 1)
             end == all([RUNS |-> store, FILE |-> store, sent |-> NoResponse],
                        bot_statements(store, Head(rs)), 1)
         IN  SerialStore(end.RUNS, Tail(rs))

NextSteps ==
    \/ BotHandler
    \/ WebHandler

SpecSteps == InitSteps /\ [][NextSteps]_vars

---------------------------------------------------------------------------
(* The updates' specification.  A store holds two runs and is sent         *)
(* run_update requests, served one after another, until MaxUpdates of them *)
(* have changed it; req is the list of the requests that changed the store *)
(* and out the last response.  The amounts                                 *)
(* are Python floats (IEEE 754 binary64), and here their additions round   *)
(* as the machine's do.  A float is written [big, small] and stands for    *)
(* big * 2^53 + small, with small an integer far below 2^52: every integer *)
(* below 2^53 is a float, and from 2^53 on the floats are 2, then 4, then  *)
(* 8 apart.                                                                *)

\* the number of requests that change the store
MaxUpdates == 3

\* x + y on floats: the exact sum, rounded to the nearest float, to the one
\* with the even mantissa when it lies half way between two
float_add(x, y) ==
    LET big == x.big + y.big
        small == x.small + y.small
        need == IF small >= 0 THEN big + 1 ELSE big
        ulp == CHOOSE u \in {1, 2, 4, 8, 16} :
                   /\ u >= need
                   /\ \A w \in {1, 2, 4, 8, 16} : w >= need => u <= w
        q == small \div ulp
        r == small % ulp
        nearest == IF 2 * r < ulp THEN q
                   ELSE IF 2 * r > ulp THEN q + 1
                   ELSE IF q % 2 = 0 THEN q ELSE q + 1
    IN  [big |-> big, small |-> nearest * ulp]

\* run_update of src/bot.py on the request r: the store it leaves, whether
\* it saved, and its response
bot_run_update(store, r) ==
    LET args == [x \in (DOMAIN r) \ {"op"} |-> r[x]]
        refuse(msg) == [RUNS |-> store, saved |-> FALSE,
                        out |-> Err(r.op, args, msg)]
    IN  IF r.run_id \notin DOMAIN store THEN refuse("Run ID not found.")
        ELSE IF r.field = "players" THEN
            IF r.value = ""
            THEN refuse("Provide value=<PlayerName> when field=players.")
            ELSE IF OnRoster(r.value, store[r.run_id].players)
            THEN [RUNS |-> store, saved |-> FALSE,
                  out |-> [op |-> r.op, status |-> "info", args |-> args,
                           message |-> "is already on the roster."]]
            ELSE LET new == [store EXCEPT ![r.run_id].players =
                                Append(@, r.value)]
                 IN  [RUNS |-> new, saved |-> TRUE,
                      out |-> Ok(r.op, args,
                                 [roster |-> new[r.run_id].players])]
        ELSE IF r.field \notin bot_AMOUNT_FIELDS
        THEN refuse("field must be one of: players | spice | plastanium | stravidium | titanium")
        ELSE IF r.amount = <<>>
        THEN refuse("Provide amount=<number> for resource updates.")
        ELSE LET new == [store EXCEPT ![r.run_id].amounts[r.field] =
                            float_add(@, r.amount[1])]
             IN  [RUNS |-> new, saved |-> TRUE,
                  out |-> Ok(r.op, args,
                             [total |-> new[r.run_id].amounts[r.field]])]

\* run_update of src/web/app.py on the request r
web_run_update(store, r) ==
    LET args == [x \in (DOMAIN r) \ {"op"} |-> r[x]]
        refuse(msg) == [RUNS |-> store, saved |-> FALSE,
                        out |-> Err(r.op, args, msg)]
    IN  IF r.run_id \notin DOMAIN store THEN refuse("Run not found.")
        ELSE IF r.field = "players" THEN
            IF r.value = ""
            THEN refuse("Provide Value when field=players.")
            ELSE IF OnRoster(r.value, store[r.run_id].players)
            THEN [RUNS |-> store, saved |-> FALSE,
                  out |-> Ok(r.op, args,
                             [text |-> "Player already in roster"])]
            ELSE LET new == [store EXCEPT ![r.run_id].players =
                                Append(@, r.value)]
                 IN  [RUNS |-> new, saved |-> TRUE,
                      out |-> Ok(r.op, args,
                                 [roster |-> new[r.run_id].players])]
        ELSE IF r.field \notin {"spice", "stravidium", "titanium", "plastanium"}
        THEN refuse("Invalid field. Use players|spice|stravidium|titanium|plastanium.")
        ELSE IF r.amount = <<>>
        THEN refuse("Amount must be a number.")
        ELSE LET new == [store EXCEPT ![r.run_id].amounts[r.field] =
                            float_add(@, r.amount[1])]
             IN  [RUNS |-> new, saved |-> TRUE,
                  out |-> Ok(r.op, args,
                             [total |-> new[r.run_id].amounts[r.field]])]

\* two runs as Create makes them, a spice run and a plastanium run, after
\* one player was added to the second; every accumulator is 0.0
InitUpdates ==
    /\ program \in {"bot", "web"}
    /\ RUNS = [id \in {SampleId, "5e6f7a8b"} |->
                 LET run == [kind |-> IF id = SampleId THEN "spice"
                                      ELSE "plastanium",
                             players |-> IF id = SampleId THEN <<"P1">>
                                         ELSE <<"P1", "P2">>,
                             amounts |-> [f \in bot_AMOUNT_FIELDS |->
                                            [big |-> 0, small |-> 0]]]
                 IN  IF program = "bot"
                     THEN run @@ [created_by |-> IF id = SampleId THEN "user1"
                                                 ELSE "user2",
                                  created_at |-> ""]
                     ELSE run]
    /\ FILE = RUNS
    /\ req = <<>>
    /\ out = NoResponse

\* /run_update of src/bot.py: a name to add, or one of the amounts 1 and
\* 2^53 (9007199254740992) for a channel
BotUpdate ==
    /\ program = "bot"
    /\ Len(req) < MaxUpdates
    /\ \E run_id \in DOMAIN RUNS \cup {UnknownId},
          field \in {"players", "spice", "titanium", "bogus"},
          value \in {"", "P2"},
          amount \in {<<>>, <<[big |-> 0, small |-> 1]>>,
                      <<[big |-> 1, small |-> 0]>>} :
        LET r == [op |-> "bot.run_update", run_id |-> run_id,
                  field |-> field, value |-> value, amount |-> amount]
            done == bot_run_update(RUNS, r)
        IN  /\ field = "players" => amount = <<>>
            /\ field # "players" => value = ""
            /\ RUNS' = done.RUNS
            /\ FILE' = IF done.saved THEN done.RUNS ELSE FILE
            /\ req' = IF done.saved THEN Append(req, r) ELSE req
            /\ out' = done.out
    /\ UNCHANGED program

\* a run_update that adds the amount to the channel of every run
WebUpdate_every_run ==
    /\ program = "web"
    /\ Len(req) < MaxUpdates
    /\ \E run_id \in DOMAIN RUNS \cup {UnknownId},
          field \in {"players", "spice", "titanium", "bogus"},
          value \in {"", "P2"},
          amount \in {<<>>, <<[big |-> 0, small |-> 1]>>,
                      <<[big |-> 1, small |-> 0]>>} :
        LET r == [op |-> "web.run_update", run_id |-> run_id,
                  field |-> field, value |-> value, amount |-> amount]
            done == web_run_update(RUNS, r)
        IN  /\ field = "players" => amount = <<>>
            /\ field # "players" => value = ""
            /\ RUNS' = IF done.saved /\ field # "players"
                       THEN [id \in DOMAIN RUNS |->
                               [RUNS[id] EXCEPT !.amounts[field] =
                                   float_add(@, amount[1])]]
                       ELSE done.RUNS
            /\ FILE' = IF done.saved THEN RUNS' ELSE FILE
            /\ req' = IF done.saved THEN Append(req, r) ELSE req
            /\ out' = done.out
    /\ UNCHANGED program

\* POST /run/update of src/web/app.py
WebUpdate ==
    /\ program = "web"
    /\ Len(req) < MaxUpdates
    /\ \E run_id \in DOMAIN RUNS \cup {UnknownId},
          field \in {"players", "spice", "titanium", "bogus"},
          value \in {"", "P2"},
          amount \in {<<>>, <<[big |-> 0, small |-> 1]>>,
                      <<[big |-> 1, small |-> 0]>>} :
        LET r == [op |-> "web.run_update", run_id |-> run_id,
                  field |-> field, value |-> value, amount |-> amount]
            done == web_run_update(RUNS, r)
        IN  /\ field = "players" => amount = <<>>
            /\ field # "players" => value = ""
            /\ RUNS' = done.RUNS
            /\ FILE' = IF done.saved THEN done.RUNS ELSE FILE
            /\ req' = IF done.saved THEN Append(req, r) ELSE req
            /\ out' = done.out
    /\ UNCHANGED program

\* the amounts added one after another to an accumulator that starts at 0.0
RECURSIVE Accumulate(_)
Accumulate(amounts) ==
    IF amounts = <<>> THEN [big |-> 0, small |-> 0]
    ELSE float_add(Accumulate(SubSeq(amounts, 1, Len(amounts) - 1)),
                   amounts[Len(amounts)])

NextUpdates ==
    \/ BotUpdate
    \/ WebUpdate

SpecUpdates == InitUpdates /\ [][NextUpdates]_vars

---------------------------------------------------------------------------
(* What a response reports, read off the response alone.                   *)

\* the integer pools (fibers, plastanium pieces) a response shares out:
\* the pool, the number of players, the share of each and the remainder
IntAllocations(o) ==
    IF o.status # "ok" THEN {}
    ELSE IF o.op = "bot.plastanium"
    THEN {[total |-> o.res.plastanium_total, players |-> o.args.players,
           per_player |-> o.res.per_player, remainder |-> o.res.remainder]}
    ELSE IF o.op = "web.calc_plast_full"
    THEN {[total |-> o.res.plast_total, players |-> o.args.players,
           per_player |-> o.res.per_player, remainder |-> o.res.remainder]}
    ELSE IF o.op = "cmd.plast_craft"
    THEN {[total |-> o.res.plastanium_total, players |-> o.args.players,
           per_player |-> o.res.plastanium_per_player,
           remainder |-> o.res.remainder]}
    ELSE IF o.op = "bot.run_calculate" /\ o.res.kind = "stravidium"
    THEN {[total |-> o.res.fibers_total, players |-> o.res.n_players,
           per_player |-> o.res.per_player_fibers,
           remainder |-> o.res.remainder]}
    ELSE IF o.op = "bot.run_calculate" /\ o.res.kind = "plastanium"
    THEN {[total |-> o.res.plastanium_total, players |-> o.res.n_players,
           per_player |-> o.res.per_player, remainder |-> o.res.remainder]}
    ELSE IF o.op = "web.run_calculate" /\ o.res.kind = "stravidium"
    THEN {[total |-> o.res.fibers_total, players |-> o.res.n_players,
           per_player |-> o.res.per_player, remainder |-> o.res.remainder]}
    ELSE IF o.op = "web.run_calculate" /\ o.res.kind = "plastanium"
    THEN {[total |-> o.res.plast_total, players |-> o.res.n_players,
           per_player |-> o.res.per_player, remainder |-> o.res.remainder]}
    ELSE {}

\* the melange a response shares out (a float pool and a float remainder)
SpiceAllocations(o) ==
    IF o.status # "ok" THEN {}
    ELSE IF o.op \in {"bot.spice", "web.calc_spice"}
    THEN {[total |-> o.res.total_melange, players |-> o.args.players,
           per_player |-> o.res.melange_per_player,
           remainder |-> o.res.melange_remainder]}
    ELSE IF o.op \in {"bot.run_calculate", "web.run_calculate"}
            /\ o.res.kind = "spice"
    THEN {[total |-> o.res.result.total_melange, players |-> o.res.n_players,
           per_player |-> o.res.result.melange_per_player,
           remainder |-> o.res.result.melange_remainder]}
    ELSE {}

\* every allocation of a response, its pool and remainder as floats
Allocations(o) ==
    SpiceAllocations(o)
    \cup {[total |-> float(a.total), players |-> a.players,
           per_player |-> a.per_player, remainder |-> float(a.remainder)]
          : a \in IntAllocations(o)}

\* the commands that take the number of players as a parameter
CalculatorOps ==
    {"bot.spice", "bot.plastanium_raw", "bot.plastanium",
     "web.calc_spice", "web.calc_plast_raw", "web.calc_plast_full",
     "cmd.spice", "cmd.plast_raw", "cmd.plast_craft", "v2.spice"}

SpiceOps == {"bot.spice", "web.calc_spice", "cmd.spice", "v2.spice"}
RawOps == {"bot.plastanium_raw", "web.calc_plast_raw", "cmd.plast_raw"}
CraftOps == {"bot.plastanium", "web.calc_plast_full", "cmd.plast_craft"}
RunOps == {"bot.run_calculate", "web.run_calculate"}
BotOps ==
    {"bot.spice", "bot.plastanium_raw", "bot.plastanium", "bot.run_calculate"}
CmdOps == {"cmd.spice", "cmd.plast_raw", "cmd.plast_craft"}

\* the parameter of a response's command that counts the chemical
\* refineries, and the one that counts the large ore refineries
ChemArg(o) ==
    IF "chem" \in DOMAIN o.args THEN o.args.chem ELSE o.args.chem_refineries
LargeArg(o) ==
    IF "large" \in DOMAIN o.args THEN o.args.large
    ELSE o.args.large_refineries

\* one conversion of a response: the number of work units asked for, the
\* time and the water of each unit, and the single-station totals (ints in
\* the bot, an int time and a float water in the web application, floats
\* in the CLI)
StageConversion(o, units, st) ==
    [units |-> units,
     time_per_unit |-> st.time_per_refinery_sec,
     time_total |-> IF o.op \in CmdOps THEN st.time_single
                    ELSE float(st.time_single),
     water_per_unit |-> st.water_per_refinery,
     water_total |-> IF o.op \in BotOps THEN float(st.water_total)
                     ELSE st.water_total]

SpiceConversion(units, r) ==
    IF "total_water" \in DOMAIN r
    THEN [units |-> units,
          time_per_unit |-> r.time_seconds_parallel,
          time_total |-> r.total_seconds_single,
          water_per_unit |-> r.water_per_processor,
          water_total |-> r.total_water]
    ELSE [units |-> units,
          time_per_unit |-> r.time_seconds_per_processor,
          time_total |-> r.total_time_seconds,
          water_per_unit |-> r.water_per_processor,
          water_total |-> r.water_required]

\* the kind of conversions a response holds: "spice", "stravidium" (the
\* fiber stage alone) or "plastanium" (the fiber and the plastanium stage)
KindOf(o) ==
    IF o.op \in SpiceOps THEN "spice"
    ELSE IF o.op \in RawOps THEN "stravidium"
    ELSE IF o.op \in CraftOps THEN "plastanium"
    ELSE o.res.kind

Conversions(o) ==
    IF o.status # "ok" THEN {}
    ELSE IF KindOf(o) = "spice"
    THEN {SpiceConversion(o.args.processors,
                          IF o.op \in RunOps THEN o.res.result ELSE o.res)}
    ELSE IF KindOf(o) = "stravidium"
    THEN {StageConversion(o, ChemArg(o), o.res.stageA)}
    ELSE {StageConversion(o, ChemArg(o), o.res.stageA),
          StageConversion(o, LargeArg(o), o.res.stageB)}

\* the response of a process to command r
Respond(r) ==
    IF r.op = "bot.spice"
    THEN bot_spice(float(r.sand), r.players, r.processors)
    ELSE IF r.op = "bot.plastanium_raw"
    THEN bot_plastanium_raw(r.strav_mass, r.titanium_ore, r.players, r.chem)
    ELSE IF r.op = "bot.plastanium"
    THEN bot_plastanium(r.strav_mass, r.titanium_ore, r.players, r.large,
                        r.chem)
    ELSE IF r.op = "bot.run_calculate"
    THEN bot_run_calculate(r.run_id, r.processors, r.chem, r.large)
    ELSE IF r.op = "web.calc_spice"
    THEN web_calc_spice_route(float(r.sand), r.players, r.processors)
    ELSE IF r.op = "web.calc_plast_raw"
    THEN web_calc_plast_raw_route(float(r.strav_mass), float(r.titanium),
                                  r.players, r.chem, r.landsraad)
    ELSE IF r.op = "web.calc_plast_full"
    THEN web_calc_plast_full_route(float(r.strav_mass), float(r.titanium),
                                   r.players, r.chem, r.large, r.landsraad)
    ELSE IF r.op = "web.run_calculate"
    THEN web_run_calculate(r.run_id, r.processors, r.chem, r.large,
                           r.landsraad)
    ELSE IF r.op = "cmd.spice"
    THEN cmd_main_spice(float(r.sand), r.players, r.processors)
    ELSE IF r.op = "cmd.plast_raw"
    THEN cmd_main_plast_raw(r.strav_mass, r.titanium, r.players, r.chem)
    ELSE IF r.op = "cmd.plast_craft"
    THEN cmd_main_plast_craft(r.strav_mass, r.titanium, r.players, r.chem,
                              r.large)
    ELSE v2_main(float(r.sand), r.players, r.processors)

\* the parameters of a command that count work units
UnitFields == {"processors", "chem", "large"}
UnitsOf(r) == DOMAIN r \cap UnitFields

\* command r with u[f] work units for each unit parameter f
WithUnits(r, u) ==
    [f \in DOMAIN r |-> IF f \in UnitFields THEN u[f] ELSE r[f]]

\* command r with each unit count below 1 raised to 1
Clamped(r) ==
    [f \in DOMAIN r |-> IF f \in UnitFields THEN Max(1, r[f]) ELSE r[f]]

\* what a response reports of the whole job: total outputs, total water,
\* and what each player gets
Totals(o) ==
    IF o.status # "ok" THEN [status |-> o.status]
    ELSE [status |-> o.status,
          allocations |-> Allocations(o),
          water |-> {c.water_total : c \in Conversions(o)},
          outputs |->
              IF o.op \in SpiceOps
              THEN <<o.res.total_melange, o.res.melange_per_player>>
              ELSE IF o.op \in RawOps
              THEN <<o.res.stageA.fibers, o.res.fibers_per_player,
                     o.res.titanium_per_player>>
              ELSE IF o.op \in RunOps /\ o.res.kind = "spice"
              THEN <<o.res.result.total_melange>>
              ELSE IF o.op \in RunOps /\ o.res.kind = "stravidium"
              THEN <<o.res.stageA.fibers>>
              ELSE <<o.res.stageA.fibers, o.res.stageB.pieces>>]

\* the spice conversion of a response: the sand, the number of processors
\* asked for, the totals, the time of each processor and its rendering
SpiceResults(o) ==
    IF o.status # "ok" THEN {}
    ELSE IF o.op \in {"bot.spice", "web.calc_spice"}
    THEN {[sand |-> o.args.sand, units |-> o.args.processors,
           total_melange |-> o.res.total_melange,
           total_water |-> o.res.total_water,
           total_time |-> o.res.total_seconds_single,
           time_per_unit |-> o.res.time_seconds_parallel,
           rendered |-> o.res.time_hms]}
    ELSE IF o.op \in {"cmd.spice", "v2.spice"}
    THEN {[sand |-> o.args.sand, units |-> o.args.processors,
           total_melange |-> o.res.total_melange,
           total_water |-> o.res.water_required,
           total_time |-> o.res.total_time_seconds,
           time_per_unit |-> o.res.time_seconds_per_processor,
           rendered |-> o.res.time_str]}
    ELSE IF o.op \in RunOps /\ o.res.kind = "spice"
    THEN {[sand |-> o.res.sand, units |-> o.args.processors,
           total_melange |-> o.res.result.total_melange,
           total_water |-> o.res.result.total_water,
           total_time |-> o.res.result.total_seconds_single,
           time_per_unit |-> o.res.result.time_seconds_parallel,
           rendered |-> o.res.time_hms]}
    ELSE {}

\* the fiber stage of a response: the stravidium mass fed, the mass one
\* fiber takes, the fibers made and, where the program reports them, the
\* mass consumed and the mass left over
FiberStages(o) ==
    IF o.status # "ok" \/ KindOf(o) = "spice" THEN {}
    ELSE IF o.op \in {"bot.plastanium_raw", "bot.plastanium"}
    THEN {[raw |-> float(o.args.strav_mass),
           per_output |-> float(bot_STRAV_MASS_PER_FIBER),
           fibers |-> o.res.stageA.fibers, accounted |-> FALSE]}
    ELSE IF o.op = "bot.run_calculate"
    THEN {[raw |-> float(o.res.mass),
           per_output |-> float(bot_STRAV_MASS_PER_FIBER),
           fibers |-> o.res.stageA.fibers, accounted |-> FALSE]}
    ELSE IF o.op \in {"cmd.plast_raw", "cmd.plast_craft"}
    THEN {[raw |-> float(o.args.strav_mass),
           per_output |-> float(cmd_STRAV_MASS_PER_FIBER),
           fibers |-> int(o.res.stageA.fibers), accounted |-> FALSE]}
    ELSE {[raw |-> IF o.op \in RunOps THEN o.res.mass ELSE o.args.strav_mass,
           per_output |-> RMul(float(web_STRAV_MASS_PER_FIBER),
                               web_cf(o.args.landsraad)),
           fibers |-> o.res.stageA.fibers, accounted |-> TRUE,
           consumed |-> o.res.stageA.raw_consumed,
           leftover |-> o.res.stageA.raw_leftover]}

\* the plastanium stage of a response: the fibers and the titanium fed,
\* what one piece takes of each, and the pieces made
PlastStages(o) ==
    IF o.status # "ok" \/ KindOf(o) # "plastanium" THEN {}
    ELSE IF o.op \in {"bot.plastanium", "bot.run_calculate"}
    THEN {[feed_a |-> float(o.res.stageA.fibers),
           ratio_a |-> float(bot_FIBER_PER_PLASTANIUM),
           feed_b |-> float(IF o.op \in RunOps THEN o.res.titanium
                            ELSE o.args.titanium_ore),
           ratio_b |-> float(bot_TI_PER_PLASTANIUM_LARGE),
           pieces |-> o.res.stageB.pieces]}
    ELSE IF o.op = "cmd.plast_craft"
    THEN {[feed_a |-> o.res.stageA.fibers,
           ratio_a |-> float(cmd_FIBER_PER_PLASTANIUM),
           feed_b |-> float(o.args.titanium),
           ratio_b |-> float(cmd_TI_PER_PLASTANIUM_LARGE),
           pieces |-> int(o.res.stageB.pieces)]}
    ELSE {[feed_a |-> float(o.res.stageA.fibers),
           ratio_a |-> RMul(float(web_FIBER_PER_PLASTANIUM),
                            web_cf(o.args.landsraad)),
           feed_b |-> IF o.op \in RunOps THEN o.res.titanium
                      ELSE o.args.titanium,
           ratio_b |-> RMul(float(web_TI_PER_PLASTANIUM_LARGE),
                            web_cf(o.args.landsraad)),
           pieces |-> o.res.stageB.pieces]}

\* the usage accounts of the plastanium stage, one for the fibers and one
\* for the titanium, where the program reports them (the web application):
\* the feed, what one piece takes of it, the pieces made, what was used and
\* what is left; inputs_ok says that both feeds are non-negative
PlastAccounts(o) ==
    IF o.op \notin {"web.calc_plast_full", "web.run_calculate"} THEN {}
    ELSE {[inputs_ok |-> RLe(RZero, s.feed_a) /\ RLe(RZero, s.feed_b),
           feed |-> s.feed_a, ratio |-> s.ratio_a, pieces |-> s.pieces,
           used |-> o.res.stageB.fiber_used,
           leftover |-> o.res.stageB.fiber_leftover]
          : s \in PlastStages(o)}
         \cup
         {[inputs_ok |-> RLe(RZero, s.feed_a) /\ RLe(RZero, s.feed_b),
           feed |-> s.feed_b, ratio |-> s.ratio_b, pieces |-> s.pieces,
           used |-> o.res.stageB.titanium_used,
           leftover |-> o.res.stageB.titanium_leftover]
          : s \in PlastStages(o)}

\* the two stages of a response of the web application, with the
\* efficiency modifier of the command
WebStages(o) ==
    IF o.status # "ok" \/ o.op \notin {"web.calc_plast_raw",
           "web.calc_plast_full", "web.run_calculate"}
       \/ KindOf(o) = "spice"
    THEN {}
    ELSE {[landsraad |-> o.args.landsraad,
           mass |-> IF o.op \in RunOps THEN o.res.mass
                    ELSE o.args.strav_mass,
           stageA |-> o.res.stageA,
           crafted |-> KindOf(o) = "plastanium",
           stageB |-> IF KindOf(o) = "plastanium" THEN o.res.stageB
                      ELSE o.res.stageA]}

\* the commands that render a duration, and those that render it from the
\* (hours, minutes, seconds) of calculate_spice_distribution
FormatOps ==
    {"bot.hms", "web.hms", "cmd.format_time_hms", "cmd.format_time",
     "v2.format_time"}
TupleOps == {"cmd.format_time", "v2.format_time"}

\* "{h}h {m}m {s}s", the hours only when nonzero
HoursMinutesSeconds(h, m, s) ==
    (IF h # 0 THEN ToString(h) \o "h " ELSE "")
    \o ToString(m) \o "m " \o ToString(s) \o "s"

---------------------------------------------------------------------------
(* Claims.                                                                 *)

\* C1: allocation is exact.  Whenever a spice, fiber or plastanium
\* allocation shares a pool total >= 0 among player_count >= 1 players,
\* per_player * player_count + remainder = total, and per_player is
\* floor(total / player_count): per_player * player_count <= total <
\* (per_player + 1) * player_count.
C1_AllocationExact ==
    \A a \in Allocations(out) :
        (RLe(RZero, a.total) /\ a.players >= 1) =>
            /\ RAdd(float(a.per_player * a.players), a.remainder) = a.total
            /\ RLe(float(a.per_player * a.players), a.total)
            /\ RLt(a.total, float((a.per_player + 1) * a.players))

\* scenario 2: 500 melange among 4 players is 125 each, nothing left
C1_Witness ==
    \E a \in Allocations(out) :
        /\ a.total = float(500)
        /\ a.players = 4
        /\ a.per_player = 125
        /\ a.remainder = RZero

\* C2: for an integer pool (fibers, plastanium pieces) total >= 0 shared
\* among player_count >= 1 players by /plastanium and by run_calculate
\* (bot and web), the remainder is an integer with
\* 0 <= remainder < player_count.
C2_IntegerRemainderInRange ==
    \A a \in IntAllocations(out) :
        (a.total >= 0 /\ a.players >= 1) =>
            /\ a.remainder \in Int
            /\ 0 <= a.remainder
            /\ a.remainder < a.players

\* run_calculate shares a pool that does not divide evenly: something is
\* left, less than one share per player
C2_Witness ==
    /\ out.op \in {"bot.run_calculate", "web.run_calculate"}
    /\ \E a \in IntAllocations(out) :
           a.total >= 0 /\ a.players >= 2 /\ a.per_player >= 1
           /\ a.remainder > 0 /\ a.remainder < a.players

\* C3: every allocation entry point fails with InvalidInput when
\* player_count < 1: a command given fewer than one player is answered
\* with an error, never with shares.
C3_PlayersBelowOneRejected ==
    (out.op \in CalculatorOps /\ out.args.players < 1) =>
        out.status = "error"

\* C4: parallel time model.  In every conversion (spice, fiber stage,
\* plastanium stage) run on unit_count >= 1 work units, the time of one
\* unit times unit_count is the single-station time, and the water of one
\* unit times unit_count is the total water.
C4_ParallelTimeModel ==
    \A c \in Conversions(out) :
        c.units >= 1 =>
            /\ RMul(c.time_per_unit, float(c.units)) = c.time_total
            /\ RMul(c.water_per_unit, float(c.units)) = c.water_total

\* a job that takes time, split over two work units: each works half
C4_Witness ==
    \E c \in Conversions(out) :
        /\ c.units = 2
        /\ RLt(RZero, c.time_total)
        /\ RLt(c.time_per_unit, c.time_total)
        /\ RLt(c.water_per_unit, c.water_total)

\* C5: total output and total water do not depend on the number of work
\* units.  The same command given any other unit counts >= 1 reports the
\* same total outputs, the same total water and the same per-player
\* allocation.
C5_TotalsIndependentOfUnits ==
    (out.status = "ok" /\ \A f \in UnitsOf(req) : req[f] >= 1) =>
        \A u \in [UnitFields -> 1 .. MaxUnits] :
            Totals(Respond(WithUnits(req, u))) = Totals(out)

\* a command run on one unit that runs on two with another per-unit
\* water and the same totals
C5_Witness ==
    /\ out.status = "ok"
    /\ \A f \in UnitsOf(req) : req[f] = 1
    /\ \E c \in Conversions(out) : RLt(RZero, c.water_total)
    /\ \E u \in [UnitFields -> 1 .. MaxUnits] :
           /\ Respond(WithUnits(req, u)).res # out.res
           /\ Totals(Respond(WithUnits(req, u))) = Totals(out)

\* C6: the spice conversion gives total melange = sand * 200 / 10000,
\* total water = sand * 75000 / 10000 and total time = sand * 2700 / 10000
\* seconds for every sand and processor count accepted; 25000 sand on one
\* processor gives 500 melange, 187500 water and 6750 s, shown as
\* "1h 52m 30s".
C6_SpiceConversion ==
    \A s \in SpiceResults(out) :
        /\ s.total_melange = RDiv(RMul(s.sand, float(200)), float(10000))
        /\ s.total_water = RDiv(RMul(s.sand, float(75000)), float(10000))
        /\ s.total_time = RDiv(RMul(s.sand, float(2700)), float(10000))
        /\ (s.sand = float(25000) /\ s.units = 1) =>
               /\ s.total_melange = float(500)
               /\ s.total_water = float(187500)
               /\ s.total_time = float(6750)
               /\ s.time_per_unit = float(6750)
               /\ s.rendered = "1h 52m 30s"

\* scenario 1: 25000 sand on one processor
C6_Witness ==
    \E s \in SpiceResults(out) :
        /\ s.sand = float(25000)
        /\ s.units = 1
        /\ s.total_melange = float(500)
        /\ s.rendered = "1h 52m 30s"

\* C7: every front end's spice calculation rejects negative sand and
\* accepts every sand >= 0, with all outputs 0 for sand = 0 (players and
\* processors being at least 1).
C7_SandPolicy ==
    (out.op \in SpiceOps /\ out.args.players >= 1
     /\ out.args.processors >= 1) =>
        /\ RLt(out.args.sand, RZero) => out.status = "error"
        /\ RLe(RZero, out.args.sand) => out.status = "ok"
        /\ out.args.sand = RZero =>
               \A s \in SpiceResults(out) :
                   /\ s.total_melange = RZero
                   /\ s.total_water = RZero
                   /\ s.total_time = RZero

\* C8: a unit count below 1 is clamped to 1 by every conversion of every
\* front end: whenever the command with its unit counts raised to 1
\* succeeds, the command itself succeeds with the same result; and no
\* other invalid value is clamped: fewer than one player is not answered
\* with a result.
C8_UnitCountClamped ==
    /\ (out.status # "none" /\ Clamped(req) # req
        /\ Respond(Clamped(req)).status = "ok") =>
           /\ out.status = "ok"
           /\ out.res = Respond(Clamped(req)).res
    /\ (out.op \in CalculatorOps /\ out.args.players < 1) =>
           out.status # "ok"

\* C9: the fiber stage conserves its raw input.  For a stravidium mass
\* raw >= 0, with or without the efficiency modifier, the fibers made are
\* floor(raw / mass per fiber); where consumption is reported,
\* consumed + leftover = raw and 0 <= leftover < mass per fiber; a mass of
\* 100 at 3 per fiber gives 33 fibers, 99 consumed, 1 left.
C9_DiscreteConversionConserves ==
    \A s \in FiberStages(out) :
        RLe(RZero, s.raw) =>
            /\ RLe(RMul(float(s.fibers), s.per_output), s.raw)
            /\ RLt(s.raw, RMul(float(s.fibers + 1), s.per_output))
            /\ s.accounted =>
                   /\ RAdd(s.consumed, s.leftover) = s.raw
                   /\ RLe(RZero, s.leftover)
                   /\ RLt(s.leftover, s.per_output)
            /\ (s.raw = float(100) /\ s.per_output = float(3)) =>
                   /\ s.fibers = 33
                   /\ s.accounted =>
                          s.consumed = float(99) /\ s.leftover = float(1)

\* scenario 3: a mass of 100 at 3 per fiber, consumption reported
C9_Witness ==
    \E s \in FiberStages(out) :
        /\ s.accounted
        /\ s.raw = float(100)
        /\ s.per_output = float(3)
        /\ s.fibers = 33
        /\ s.consumed = float(99)
        /\ s.leftover = float(1)

\* C10: the plastanium stage is bound by the scarcer input.  For fibers
\* feed_a >= 0 and titanium feed_b >= 0 the pieces made are
\* min(floor(feed_a / ratio_a), floor(feed_b / ratio_b)): both feeds cover
\* the pieces, and one of them does not cover one piece more; 40 fibers at
\* 1 and 100 titanium at 4 give 25 pieces.
C10_BoundByScarcerInput ==
    \A s \in PlastStages(out) :
        (RLe(RZero, s.feed_a) /\ RLe(RZero, s.feed_b)) =>
            /\ RLe(RMul(float(s.pieces), s.ratio_a), s.feed_a)
            /\ RLe(RMul(float(s.pieces), s.ratio_b), s.feed_b)
            /\ \/ RLt(s.feed_a, RMul(float(s.pieces + 1), s.ratio_a))
               \/ RLt(s.feed_b, RMul(float(s.pieces + 1), s.ratio_b))
            /\ (s.feed_a = float(40) /\ s.ratio_a = float(1)
                /\ s.feed_b = float(100) /\ s.ratio_b = float(4)) =>
                   s.pieces = 25

\* scenario 4: 40 fibers and 100 titanium
C10_Witness ==
    \E s \in PlastStages(out) :
        /\ s.feed_a = float(40)
        /\ s.ratio_a = float(1)
        /\ s.feed_b = float(100)
        /\ s.ratio_b = float(4)
        /\ s.pieces = 25

\* C11: usage accounting of the plastanium stage.  For both feeds and all
\* non-negative inputs, with or without the efficiency modifier,
\* used = pieces * ratio, used <= feed, leftover >= 0 and
\* used + leftover = feed, so that the max(0, ...) on the leftover never
\* changes the value feed - used.
C11_UsageAccounting ==
    \A a \in PlastAccounts(out) :
        a.inputs_ok =>
            /\ a.used = RMul(float(a.pieces), a.ratio)
            /\ RLe(a.used, a.feed)
            /\ RLe(RZero, a.leftover)
            /\ RAdd(a.used, a.leftover) = a.feed
            /\ a.leftover = RSub(a.feed, a.used)

\* with the modifier on, pieces are made and something of a feed is left
C11_Witness ==
    \E a \in PlastAccounts(out) :
        /\ a.inputs_ok
        /\ a.ratio = Rat(3, 4)
        /\ a.pieces > 0
        /\ RLt(RZero, a.leftover)
        /\ RLt(a.leftover, a.feed)

\* C12: the efficiency modifier (factor 0.75) scales every per-output
\* consumption ratio before the floor division and leaves the per-output
\* time alone.  With f = 0.75 when the modifier is on and 1 when it is
\* off, for a mass >= 0: fibers = floor(mass / (3 f)), mass consumed =
\* fibers * 3 f, water = fibers * 100 f, and the plastanium stage uses
\* pieces * f fibers, pieces * 4 f titanium and pieces * 1250 f water;
\* the times are fibers * 10 s and pieces * 20 s in both cases.
C12_ModifierScalesRatiosNotTime ==
    \A w \in WebStages(out) :
        LET f == IF w.landsraad THEN Rat(3, 4) ELSE float(1)
            fibers == w.stageA.fibers
            pieces == w.stageB.pieces
        IN  RLe(RZero, w.mass) =>
            /\ RLe(RMul(float(fibers * 3), f), w.mass)
            /\ RLt(w.mass, RMul(float((fibers + 1) * 3), f))
            /\ w.stageA.raw_consumed = RMul(float(fibers * 3), f)
            /\ w.stageA.water_total = RMul(float(fibers * 100), f)
            /\ w.stageA.time_single = fibers * 10
            /\ w.crafted =>
                   /\ w.stageB.fiber_used = RMul(float(pieces), f)
                   /\ w.stageB.titanium_used = RMul(float(pieces * 4), f)
                   /\ w.stageB.water_total = RMul(float(pieces * 1250), f)
                   /\ w.stageB.time_single = pieces * 20

\* the modifier is on, a mass of 100 makes 44 fibers in 440 s
C12_Witness ==
    \E w \in WebStages(out) :
        /\ w.landsraad
        /\ w.mass = float(100)
        /\ w.stageA.fibers = 44
        /\ w.stageA.raw_consumed = float(99)
        /\ w.stageA.water_total = float(3300)
        /\ w.stageA.time_single = 440

\* C13: every duration formatter of the repository renders 0 s as
\* "0m 0s", 59 s as "0m 59s" and 3661 s as "1h 1m 1s".
C13_DurationRendering ==
    out.op \in FormatOps =>
        /\ out.args.seconds = float(0) => out.res.text = "0m 0s"
        /\ out.args.seconds = float(59) => out.res.text = "0m 59s"
        /\ out.args.seconds = float(3661) => out.res.text = "1h 1m 1s"

\* C14: the duration shown is round(d) split by integer division.  For
\* every duration d >= 0 the time tuple of the CLI has 0 <= minutes < 60,
\* 0 <= seconds < 60 and hours * 3600 + minutes * 60 + seconds = round(d),
\* and hms renders the hours, minutes and seconds of round(d).
C14_DurationDecomposition ==
    out.op \in FormatOps =>
        LET total == round(out.args.seconds)
        IN  IF out.op \in TupleOps
            THEN /\ 0 <= out.res.time[2] /\ out.res.time[2] < 60
                 /\ 0 <= out.res.time[3] /\ out.res.time[3] < 60
                 /\ out.res.time[1] * 3600 + out.res.time[2] * 60
                        + out.res.time[3] = total
            ELSE out.res.text =
                     HoursMinutesSeconds(total \div 3600,
                                         (total % 3600) \div 60, total % 60)

---------------------------------------------------------------------------
(* Claims about the run tracker.  In a state of SpecRuns, req is the       *)
(* request served last and out the response to it; in a step, the primed   *)
(* req and out are the request the step serves and its response.           *)

\* the handlers of the run tracker, by operation
CreateOps == {"bot.run", "web.run_create"}
UpdateOps == {"bot.run_update", "web.run_update"}
DeleteOps == {"bot.run_delete", "web.run_delete"}
\* the operations that name a run
TargetOps == UpdateOps \cup DeleteOps \cup RunOps \cup {"bot.run_view", "web.run_view"}

\* the requester r is the creator of the run or an administrator; a run
\* of the web application records no creator
Permitted(r, run) ==
    \/ r.administrator
    \/ "created_by" \in DOMAIN run /\ r.user = run.created_by

\* C15: in every front end, a Delete of a stored run by an identity that is
\* neither its creator nor an administrator fails, and the run is still in
\* the store and in the file, unchanged; a run leaves the store only by a
\* Delete of its creator or of an administrator.
C15_DeletePermissionGated ==
    [][/\ (/\ req'.op \in DeleteOps
           /\ req'.run_id \in DOMAIN RUNS
           /\ ~Permitted(req', RUNS[req'.run_id]))
          => /\ out'.status = "error"
             /\ RUNS' = RUNS
             /\ FILE' = FILE
       /\ \A id \in (DOMAIN RUNS) \ (DOMAIN RUNS') :
             /\ req'.op \in DeleteOps
             /\ req'.run_id = id
             /\ Permitted(req', RUNS[id])]_vars

\* no name occurs twice on the roster
NoDuplicates(players) ==
    \A i, j \in 1 .. Len(players) : players[i] = players[j] => i = j

\* C16: after every step the roster of every stored run has no name twice,
\* and adding a name that is already on the roster leaves the store and
\* the file as they were and is answered with something other than an
\* error.
C16_RosterNoDuplicates ==
    [][/\ \A id \in DOMAIN RUNS' : NoDuplicates(RUNS'[id].players)
       /\ (/\ req'.op \in UpdateOps
           /\ req'.field = "players"
           /\ req'.run_id \in DOMAIN RUNS
           /\ OnRoster(req'.value, RUNS[req'.run_id].players))
          => /\ RUNS' = RUNS
             /\ FILE' = FILE
             /\ out'.status # "error"]_vars

\* C17: in every state every accumulator of every stored run is >= 0.
C17_AccumulatorsNonNegative ==
    \A id \in DOMAIN RUNS : \A f \in DOMAIN RUNS[id].amounts :
        RLe(RZero, RUNS[id].amounts[f])

\* C18: the run a Create has just stored has its four accumulators at
\* zero, and in every state every stored run has exactly the four channels
\* spice, plastanium, stravidium and titanium.
C18_FourChannelsFromZero ==
    /\ \A id \in DOMAIN RUNS :
           DOMAIN RUNS[id].amounts = {"spice", "plastanium", "stravidium", "titanium"}
    /\ (out.op \in CreateOps /\ out.status = "ok")
       => /\ out.res.run_id \in DOMAIN RUNS
          /\ \A f \in {"spice", "plastanium", "stravidium", "titanium"} :
                 RUNS[out.res.run_id].amounts[f] = RZero

\* a Create has just stored a run
C18_Witness ==
    /\ out.op \in CreateOps
    /\ out.status = "ok"
    /\ out.res.run_id \in DOMAIN RUNS
    /\ FILE = RUNS

\* the response says that no run has the id
NotFound(o) ==
    /\ o.status = "error"
    /\ o.message \in {"Run ID not found.", "Run not found."}

C20_CalculateReadOnly ==
    [][req'.op \in RunOps => RUNS' = RUNS /\ FILE' = FILE]_vars

\* a Calculate has just shared out the spice of a stored run
C20_Witness ==
    /\ out.op \in RunOps
    /\ out.status = "ok"
    /\ out.args.run_id \in DOMAIN RUNS
    /\ RLt(RZero, RUNS[out.args.run_id].amounts.spice)
    /\ FILE = RUNS

---------------------------------------------------------------------------
(* Claims about Calculate on a stored run.                                 *)

\* the response is a refusal for want of recorded input
InsufficientInput(o) ==
    /\ o.status = "error"
    /\ o.message \in {"No spice sand recorded for this run.",
                      "No stravidium mass recorded for this run.",
                      "Plastanium runs require both stravidium mass and titanium amounts.",
                      "No spice sand recorded.", "No stravidium mass recorded.",
                      "Plastanium run requires both stravidium mass and titanium."}

\* an accumulator the kind of the run requires is zero or negative
LacksInput(run) ==
    IF run.kind = "spice" THEN RLe(run.amounts.spice, RZero)
    ELSE IF run.kind = "stravidium" THEN RLe(run.amounts.stravidium, RZero)
    ELSE \/ RLe(run.amounts.stravidium, RZero)
         \/ RLe(run.amounts.titanium, RZero)

\* C21: Calculate on a stored run is refused for insufficient input exactly
\* when an accumulator its kind requires is zero or negative (spice for a
\* spice run, stravidium for a stravidium run, stravidium and titanium for
\* a plastanium run); otherwise it produces a result.
C21_InsufficientInputExactly ==
    (out.op \in RunOps /\ out.args.run_id \in DOMAIN RUNS)
    => IF LacksInput(RUNS[out.args.run_id])
       THEN InsufficientInput(out)
       ELSE out.status = "ok"

---------------------------------------------------------------------------
(* Claims about the steps of the run tracker.                              *)

\* C22: a request that is rejected (unknown kind, empty roster, missing
\* player name, unrecognized channel, missing or non-numeric amount,
\* permission denied, unknown run) leaves the store and the file exactly
\* as they were.
C22_RejectedChangesNothing ==
    [][out'.status = "error" => RUNS' = RUNS /\ FILE' = FILE]_vars

\* an update of a stored run has just been rejected for its channel name
C22_Witness ==
    /\ out.op \in UpdateOps
    /\ out.status = "error"
    /\ out.args.run_id \in DOMAIN RUNS
    /\ out.args.field = "bogus"
    /\ FILE = RUNS


---------------------------------------------------------------------------
(* Claims about the handlers                                              *)

\* C23: the store is persisted after every mutation: when a handler that
\* changed the store has finished, the file equals the whole store, its save
\* came after its changes and before its response, and no handler writes
\* the file more than once.
C23_SavedBeforeResponse ==
    /\ FILE = RUNS
    /\ \A h \in DOMAIN req :
        LET done == req[h].done
            Mutations == {i \in DOMAIN done : done[i] \in {"put", "del"}}
            Saves == {i \in DOMAIN done : done[i] = "save"}
            Sends == {i \in DOMAIN done : done[i] = "send"}
        IN  /\ Cardinality(Saves) <= 1
            /\ Mutations # {} =>
                \E j \in Saves :
                    /\ \A i \in Mutations : i < j
                    /\ \A k \in Sends : j < k
                    /\ Sends # {}

\* a Delete and an AddAmount have both changed the store, saved and answered
C23_Witness ==
    \E h, g \in DOMAIN req :
        /\ req[h].done = <<"del", "save", "send">>
        /\ req[g].done = <<"put", "save", "send">>
        /\ req[g].r.op \in UpdateOps
        /\ out[h].status = "ok"
        /\ out[g].status = "ok"
        /\ FILE = RUNS


---------------------------------------------------------------------------
(* Claims about Create                                                    *)

\* C24: the identifier a successful Create returns is not in the store the
\* request finds, every run of that store is left as it was, and the store
\* has exactly one run more.
C24_CreateReturnsFreshId ==
    [][(out'.op \in CreateOps /\ out'.status = "ok")
       => /\ out'.res.run_id \notin DOMAIN RUNS
          /\ \A id \in DOMAIN RUNS : id \in DOMAIN RUNS' /\ RUNS'[id] = RUNS[id]
          /\ Cardinality(DOMAIN RUNS') = Cardinality(DOMAIN RUNS) + 1]_vars


---------------------------------------------------------------------------
(* Claims about the agreement of the front ends                           *)

\* C25: for sand >= 0, players >= 1 and processors >= 1 the spice
\* calculation of the bot, of spice_calc_cmd and of spice_calculatorv2
\* succeeds and returns the same share for each player, the floor of the
\* total melange (200 for every 10000 of sand) divided by the players.
C25_SameShareEverywhere ==
    (/\ out.op \in {"bot.spice", "cmd.spice", "v2.spice"}
     /\ RLe(RZero, out.args.sand)
     /\ out.args.players >= 1
     /\ out.args.processors >= 1)
    => /\ out.status = "ok"
       /\ LET share == IF out.op = "v2.spice"
                       THEN out.res.melange_per_player
                       ELSE float(out.res.melange_per_player)
              total == RDiv(RMul(out.args.sand, float(200)), float(10000))
          IN  share = float(RFloor(RDiv(total, float(out.args.players))))


---------------------------------------------------------------------------
(* Claims about the roster and the accumulators of a run                  *)

C27_AdditiveOrderIndependent ==
    \A id \in DOMAIN RUNS, f \in bot_AMOUNT_FIELDS :
        LET added == SelectSeq(req, LAMBDA r : r.run_id = id /\ r.field = f)
            n == Len(added)
            a(i) == added[i].amount[1]
            sum == [big |-> Cardinality({i \in 1 .. n : a(i).big = 1}),
                    small |-> Cardinality({i \in 1 .. n : a(i).small = 1})]
        IN  /\ RUNS[id].amounts[f] = sum
            /\ \A p \in [1 .. n -> 1 .. n] :
                   (\A i, j \in 1 .. n : p[i] = p[j] => i = j)
                   => Accumulate([i \in 1 .. n |-> a(p[i])])
                          = RUNS[id].amounts[f]


\* C28: a successful AddAmount changes one accumulator of one run and a
\* successful AddPlayer changes the roster of one run; every other run,
\* and the kind, the creator, the creation time and the other accumulators
\* of the run itself, stay as they were; and over every step the runs keep
\* their kind, creator and creation time.
C28_UpdateFrame ==
    [][/\ (/\ out'.op \in UpdateOps
           /\ out'.status = "ok"
           /\ RUNS' # RUNS)
          => LET id == out'.args.run_id
                 field == out'.args.field
             IN  /\ DOMAIN RUNS' = DOMAIN RUNS
                 /\ \A other \in (DOMAIN RUNS) \ {id} :
                        RUNS'[other] = RUNS[other]
                 /\ IF field = "players"
                    THEN RUNS'[id] = [RUNS[id] EXCEPT !.players =
                                         RUNS'[id].players]
                    ELSE RUNS'[id] = [RUNS[id] EXCEPT !.amounts[field] =
                                         RUNS'[id].amounts[field]]
       /\ \A id \in (DOMAIN RUNS) \cap (DOMAIN RUNS') :
            /\ RUNS'[id].kind = RUNS[id].kind
            /\ "created_by" \in DOMAIN RUNS[id]
               => /\ RUNS'[id].created_by = RUNS[id].created_by
                  /\ RUNS'[id].created_at = RUNS[id].created_at]_vars

\* titanium has just been added to a run that has spice on record, beside
\* a run with two players
C28_Witness ==
    /\ out.op \in UpdateOps
    /\ out.status = "ok"
    /\ out.args.field = "titanium"
    /\ \E id \in DOMAIN RUNS :
        /\ id = out.args.run_id
        /\ RUNS[id].amounts.titanium = out.args.amount[1]
        /\ RUNS[id].amounts.spice = [big |-> 0, small |-> 2]
        /\ \E other \in (DOMAIN RUNS) \ {id} :
               RUNS[other].players = <<"P1", "P2">>


\* C29: in every state every stored run has one of the kinds spice,
\* plastanium, stravidium and at least one player, so a Calculate of a
\* stored run never finds an empty roster and divides by a player count of
\* at least 1.
C29_StoredRunsWellFormed ==
    /\ \A id \in DOMAIN RUNS :
        /\ RUNS[id].kind \in {"spice", "plastanium", "stravidium"}
        /\ Len(RUNS[id].players) >= 1
    /\ out.op \in RunOps
       => /\ out.status = "error" => out.message # "No players in this run."
          /\ out.status = "ok"
             => /\ out.res.n_players >= 1
                /\ out.res.n_players = Len(RUNS[out.args.run_id].players)

\* a Calculate has just divided the output of a run among its two players
C29_Witness ==
    /\ out.op \in RunOps
    /\ out.status = "ok"
    /\ out.res.n_players = 2
    /\ out.res.kind \in {"spice", "plastanium", "stravidium"}
    /\ Len(RUNS[out.args.run_id].players) = 2


\* C30: in the bot, when handlers of run, run_update and run_delete that
\* were in flight together have all finished, the store (and the file) is
\* the one that running them one after another, in some order, would have
\* left: no added amount is lost and no deleted run comes back.
C30_HandlersSerializable ==
    (/\ program = "bot"
     /\ \A h \in DOMAIN req : req[h].pc > Len(req[h].body))
    => \E order \in [DOMAIN req -> DOMAIN req] :
        /\ \A i, j \in DOMAIN req : order[i] = order[j] => i = j
        /\ RUNS = SerialStore(req[1].arrived,
                              [i \in DOMAIN req |-> req[order[i]].r])
        /\ FILE = RUNS

\* two handlers that added 1 and 2 to the spice of the same run have both
\* finished, and the run has 3
C30_Witness ==
    /\ program = "bot"
    /\ \A h \in DOMAIN req : req[h].pc > Len(req[h].body)
    /\ \E h, g \in DOMAIN req :
        /\ req[h].r.op = "bot.run_update" /\ req[h].r.field = "spice"
        /\ req[g].r.op = "bot.run_update" /\ req[g].r.field = "spice"
        /\ req[h].r.amount = <<1>> /\ out[h].status = "ok"
        /\ req[g].r.amount = <<2>> /\ out[g].status = "ok"
    /\ \E id \in DOMAIN RUNS : RLe(float(3), RUNS[id].amounts.spice)

===========================================================================
